---- MODULE Spec2Model ----
(***************************************************************************)
(* The conversational transaction confirmation pipeline of the opBNB AI    *)
(* assistant: the conversation store (conversationStore: messages,         *)
(* pendingAction, isProcessing, confirmAction, rejectAction,               *)
(* clearConversation), the chat component's handlers (AIChat.tsx:          *)
(* handleSendMessage, handleConfirmationResponse, handleUploadComplete,    *)
(* handleUploadError, handleNFTDetailsAfterUpload, handleClearChat), the   *)
(* upload button (UploadButton.tsx: handleFileSelect) and the parts of the *)
(* Gemini service they call (processUserInput, parseAIResponse,            *)
(* generateConfirmationMessage).                                           *)
(*                                                                         *)
(* Every async handler is a task: it runs from one await to the next in    *)
(* one step, and between two awaits any other event of the page may run.   *)
(* A handler reads the component's state as of the render in which it was  *)
(* called; the store's actions read and write the store when they run.     *)
(*                                                                         *)
(* Text that the code inspects (what the user types, names) is a sequence  *)
(* of one-character strings.  The content of a message is its template     *)
(* (content) and the text interpolated into it (arg).                      *)
(***************************************************************************)
EXTENDS Integers, Sequences, FiniteSets, TLC

VARIABLES
  messages,               \* store: ConversationMessage[]
  pendingAction,          \* store: PendingAction | null
  isProcessing,           \* store: boolean
  uploadedImage,          \* AIChat: {url, fileName} | null
  isWaitingForNFTDetails, \* AIChat: boolean
  pendingNFTDetails,      \* AIChat: {name?, description?} | null
  tasks,                  \* the async handlers in flight, oldest first
  nextId,                 \* the next fresh PendingAction identity
  submissions,            \* history: the submission calls made, in order
  clears                  \* history: how often the chat was cleared

vars == <<messages, pendingAction, isProcessing, uploadedImage,
          isWaitingForNFTDetails, pendingNFTDetails, tasks, nextId,
          submissions, clears>>

\* ------------------------------------------------------------------ bounds

\* The async handlers that may be in flight at once.
MaxTasks == 2

\* A user message or a file choice is offered only below this transcript length.
MaxMessages == 5

\* The number of PendingAction objects created in one run.
MaxPending == 2

\* The number of times the Clear Chat button is pressed in one run.
MaxClears == 1

\* ------------------------------------------------------------------ text

NULL == [null |-> TRUE]

Upper == <<"A","B","C","D","E","F","G","H","I","J","K","L","M",
           "N","O","P","Q","R","S","T","U","V","W","X","Y","Z">>
Lower == <<"a","b","c","d","e","f","g","h","i","j","k","l","m",
           "n","o","p","q","r","s","t","u","v","w","x","y","z">>

Whitespace == {" ", "\n", "\t"}

\* String.prototype.toLowerCase, one character
LowerChar(c) ==
  IF \E i \in 1..26 : Upper[i] = c
  THEN Lower[CHOOSE i \in 1..26 : Upper[i] = c]
  ELSE c

\* String.prototype.toLowerCase
toLowerCase(s) == [i \in 1..Len(s) |-> LowerChar(s[i])]

\* String.prototype.trim
trim(s) ==
  LET solid == {i \in 1..Len(s) : s[i] \notin Whitespace}
  IN  IF solid = {} THEN <<>>
      ELSE LET lo == CHOOSE i \in solid : \A j \in solid : i <= j
               hi == CHOOSE i \in solid : \A j \in solid : j <= i
           IN  SubSeq(s, lo, hi)

\* s has sub at position i
At(s, sub, i) ==
  /\ i >= 1
  /\ i + Len(sub) - 1 <= Len(s)
  /\ \A k \in 1..Len(sub) : s[i + k - 1] = sub[k]

\* String.prototype.includes
includes(s, sub) == \E i \in 1..(Len(s) + 1) : At(s, sub, i)

\* the texts the handlers look for
S_yes == <<"y","e","s">>
S_y == <<"y">>
S_confirm == <<"c","o","n","f","i","r","m">>
S_proceed == <<"p","r","o","c","e","e","d">>
S_ok == <<"o","k">>
S_sure == <<"s","u","r","e">>
S_no == <<"n","o">>
S_n == <<"n">>
S_cancel == <<"c","a","n","c","e","l">>
S_abort == <<"a","b","o","r","t">>
S_stop == <<"s","t","o","p">>
S_create == <<"c","r","e","a","t","e">>
S_nft == <<"n","f","t">>
S_mint == <<"m","i","n","t">>
S_skip == <<"s","k","i","p">>
S_no_description == <<"n","o"," ","d","e","s","c","r","i","p","t","i","o","n">>
S_called == <<"c","a","l","l","e","d">>
S_description == <<"d","e","s","c","r","i","p","t","i","o","n">>
S_nothing == <<"n","o","t","h","i","n","g">>
S_name_colon == <<"n","a","m","e",":">>
S_description_colon == <<"d","e","s","c","r","i","p","t","i","o","n",":">>

\* AIChat.tsx:137 and :154
Affirmative == {S_yes, S_y, S_confirm, S_proceed, S_ok, S_sure}
Negative == {S_no, S_n, S_cancel, S_abort, S_stop}

\* ------------------------------------------------------------------ regular expressions

WsRun(s, from, to) == \A j \in from..to : s[j] \in Whitespace

\* [^,\n] over s[from..to]
PlainRun(s, from, to) == \A j \in from..to : s[j] \notin {",", "\n"}

\* . over s[from..to]
DotRun(s, from, to) == \A j \in from..to : s[j] # "\n"

Min(S) == CHOOSE x \in S : \A y \in S : x <= y
Max(S) == CHOOSE x \in S : \A y \in S : y <= x

\* (?:\s+description\s+(.+))?$ tried at position p of s: the starts of (.+)
TailStarts(s, p) ==
  {c \in (p + Len(S_description) + 2)..Len(s) :
     \E w \in 1..(c - p - Len(S_description) - 1) :
       /\ WsRun(s, p, p + w - 1)
       /\ At(toLowerCase(s), S_description, p + w)
       /\ p + w + Len(S_description) <= c - 1
       /\ WsRun(s, p + w + Len(S_description), c - 1)
       /\ DotRun(s, c, Len(s))}

\* /called\s+([^,\n]+?)(?:\s+description\s+(.+))?$/i tried at position i:
\* the pairs <<start of group 1, end of group 1>> that let the rest match
CalledAt(s, i) ==
  LET p == i + Len(S_called)
  IN  IF ~At(toLowerCase(s), S_called, i) THEN {}
      ELSE {ab \in (p + 1..Len(s)) \X (p + 1..Len(s)) :
              /\ ab[1] <= ab[2]
              /\ WsRun(s, p, ab[1] - 1)
              /\ PlainRun(s, ab[1], ab[2])
              /\ (ab[2] = Len(s) \/ TailStarts(s, ab[2] + 1) # {})}

\* userInput.match(/called\s+([^,\n]+?)(?:\s+description\s+(.+))?$/i):
\* leftmost match, \s+ greedy, group 1 lazy, the optional group tried first
calledMatch(s) ==
  LET starts == {i \in 1..Len(s) : CalledAt(s, i) # {}}
  IN  IF starts = {} THEN NULL
      ELSE LET i == Min(starts)
               a == Max({ab[1] : ab \in CalledAt(s, i)})
               b == Min({ab[2] : ab \in {x \in CalledAt(s, i) : x[1] = a}})
               cs == TailStarts(s, b + 1)
           IN  [g1 |-> SubSeq(s, a, b),
                g2 |-> IF cs = {} THEN NULL ELSE SubSeq(s, Max(cs), Len(s))]

\* key\s*([^,\n]+) tried right after the key, which ends before position p:
\* the starts of group 1
ValueStarts(s, p) ==
  {a \in p..Len(s) : WsRun(s, p, a - 1) /\ PlainRun(s, a, a)}

\* userInput.match(/<key>\s*([^,\n]+)/i): leftmost match, both parts greedy
keyMatch(s, key) ==
  LET starts == {i \in 1..Len(s) :
                   /\ At(toLowerCase(s), key, i)
                   /\ ValueStarts(s, i + Len(key)) # {}}
  IN  IF starts = {} THEN NULL
      ELSE LET a == Max(ValueStarts(s, Min(starts) + Len(key)))
               b == Max({e \in a..Len(s) : PlainRun(s, a, e)})
           IN  [g1 |-> SubSeq(s, a, b)]

\* ------------------------------------------------------------------ the NFT details typed after an upload

\* AIChat.tsx:180 and :321
S_placeholder ==
  <<"N","F","T"," ","c","r","e","a","t","e","d"," ","w","i","t","h"," ","o",
      "p","B","N","B"," ","A","I"," ","A","s","s","i","s","t","a","n","t">>

\* AIChat.tsx:179
S_untitled == <<"U","n","t","i","t","l","e","d"," ","N","F","T">>

\* the cascade without its two branches that re-prompt and return
parseNFTDetails_withoutReprompts(userInput) ==
  LET lower == toLowerCase(userInput)
      called == calledMatch(userInput)
      nameMatch == keyMatch(userInput, S_name_colon)
      descriptionMatch == keyMatch(userInput, S_description_colon)
      calledDescription == IF called = NULL \/ called.g2 = NULL THEN <<>>
                           ELSE trim(called.g2)
  IN  IF includes(lower, S_create) /\ includes(lower, S_nft)
      THEN IF called # NULL
           THEN [branch |-> "parsed",
                 name |-> trim(called.g1),
                 description |-> IF toLowerCase(calledDescription) = S_nothing
                                 THEN <<>> ELSE calledDescription]
           ELSE [branch |-> "parsed", name |-> <<>>, description |-> <<>>]
      ELSE IF nameMatch # NULL
      THEN [branch |-> "parsed",
            name |-> trim(nameMatch.g1),
            description |-> IF descriptionMatch = NULL THEN <<>>
                            ELSE trim(descriptionMatch.g1)]
      ELSE IF Len(userInput) < 50 /\ ~includes(userInput, <<",">>)
      THEN [branch |-> "parsed", name |-> trim(userInput), description |-> <<>>]
      ELSE [branch |-> "parsed", name |-> <<>>, description |-> <<>>]

\* AIChat.tsx:265-305: the cascade that reads a name and a description out of
\* the reply; branch is "parsed" when the cascade falls through to the check
\* of the name, "proceed" or "skip" when it re-prompts and returns
parseNFTDetails(userInput) ==
  LET lower == toLowerCase(userInput)
      called == calledMatch(userInput)
      nameMatch == keyMatch(userInput, S_name_colon)
      descriptionMatch == keyMatch(userInput, S_description_colon)
      calledDescription == IF called = NULL \/ called.g2 = NULL THEN <<>>
                           ELSE trim(called.g2)
  IN  IF includes(lower, S_create) /\ includes(lower, S_nft)
      THEN IF called # NULL
           THEN [branch |-> "parsed",
                 name |-> trim(called.g1),
                 description |-> IF toLowerCase(calledDescription) = S_nothing
                                 THEN <<>> ELSE calledDescription]
           ELSE [branch |-> "parsed", name |-> <<>>, description |-> <<>>]
      ELSE IF nameMatch # NULL
      THEN [branch |-> "parsed",
            name |-> trim(nameMatch.g1),
            description |-> IF descriptionMatch = NULL THEN <<>>
                            ELSE trim(descriptionMatch.g1)]
      ELSE IF \/ includes(lower, S_confirm)
              \/ includes(lower, S_mint)
              \/ includes(lower, S_proceed)
      THEN [branch |-> "proceed", name |-> <<>>, description |-> <<>>]
      ELSE IF \/ includes(lower, S_skip)
              \/ includes(lower, S_no_description)
              \/ lower = S_no
      THEN [branch |-> "skip", name |-> <<>>, description |-> <<>>]
      ELSE IF Len(userInput) < 50 /\ ~includes(userInput, <<",">>)
      THEN [branch |-> "parsed", name |-> trim(userInput), description |-> <<>>]
      ELSE [branch |-> "parsed", name |-> <<>>, description |-> <<>>]

\* AIChat.tsx:316-327: the mint_nft action made from the reply
\* (confidence is in hundredths)
nftActionFromReply(parsed, image) ==
  [action |-> "mint_nft",
   confidence |-> 95,
   details |-> [name |-> parsed.name,
                description |-> IF parsed.description # <<>>
                                THEN parsed.description ELSE S_placeholder,
                imageUrl |-> image.url,
                attributes |-> <<>>],
   missingFields |-> <<>>,
   isComplete |-> TRUE]

\* a field of a details object is present and truthy
Truthy(d, f) == f \in DOMAIN d /\ d[f] # <<>>

\* AIChat.tsx:177
hasNFTDetails(d) ==
  d # NULL /\ (Truthy(d, "name") \/ Truthy(d, "description"))

\* AIChat.tsx:179-194: the mint_nft action made from the details kept from the
\* request
nftActionFromPending(d, url) ==
  [action |-> "mint_nft",
   confidence |-> 95,
   details |-> [name |-> IF Truthy(d, "name") THEN d.name ELSE S_untitled,
                description |-> IF Truthy(d, "description")
                                THEN d.description ELSE S_placeholder,
                imageUrl |-> url,
                attributes |-> <<>>],
   missingFields |-> <<>>,
   isComplete |-> TRUE]

\* ------------------------------------------------------------------ defaults of a token (geminiAI)

IsWordChar(c) ==
  \/ \E i \in 1..26 : Upper[i] = c \/ Lower[i] = c
  \/ c \in {"0","1","2","3","4","5","6","7","8","9","_"}

\* String.prototype.toUpperCase, one character
UpperChar(c) ==
  IF \E i \in 1..26 : Lower[i] = c
  THEN Upper[CHOOSE i \in 1..26 : Lower[i] = c]
  ELSE c

\* String.prototype.toUpperCase
toUpperCase(s) == [i \in 1..Len(s) |-> UpperChar(s[i])]

\* String.prototype.substring(0, n)
substring0(s, n) == SubSeq(s, 1, IF n < Len(s) THEN n ELSE Len(s))

S_TKN == <<"T","K","N">>

GamingWords ==
  {<<"g","a","m","e">>, <<"g","a","m","i","n","g">>, <<"p","l","a","y">>,
   <<"q","u","e","s","t">>, <<"r","p","g">>, <<"n","f","t">>}
MemeWords ==
  {<<"m","e","m","e">>, <<"p","e","p","e">>, <<"d","o","g","e">>,
   <<"s","h","i","b">>, <<"m","o","o","n">>, <<"r","o","c","k","e","t">>}
GovernanceWords ==
  {<<"g","o","v","e","r","n">>, <<"v","o","t","e">>, <<"d","a","o">>,
   <<"c","o","u","n","c","i","l">>, <<"p","r","o","p","o","s","a","l">>}
UtilityWords ==
  {<<"u","t","i","l","i","t","y">>, <<"a","p","p">>,
   <<"p","l","a","t","f","o","r","m">>, <<"s","e","r","v","i","c","e">>,
   <<"n","e","t","w","o","r","k">>}
StableWords ==
  {<<"s","t","a","b","l","e">>, <<"u","s","d">>, <<"d","o","l","l","a","r">>,
   <<"p","e","g">>}
GenericWords ==
  {<<"t","o","k","e","n">>, <<"c","o","i","n">>,
   <<"c","u","r","r","e","n","c","y">>, <<"c","r","y","p","t","o">>,
   <<"d","i","g","i","t","a","l">>,
   <<"b","l","o","c","k","c","h","a","i","n">>}

\* geminiAI: generateSmartTotalSupply
generateSmartTotalSupply(tokenName) ==
  LET name == toLowerCase(tokenName)
      any(ws) == \E w \in ws : includes(name, w)
      oneAndZeros(n) == <<"1">> \o [i \in 1..n |-> "0"]
  IN  IF any(GamingWords) THEN oneAndZeros(9)
      ELSE IF any(MemeWords) THEN oneAndZeros(12)
      ELSE IF any(GovernanceWords) THEN oneAndZeros(7)
      ELSE IF any(UtilityWords) THEN oneAndZeros(8)
      ELSE IF any(StableWords) THEN oneAndZeros(6)
      ELSE oneAndZeros(6)

\* \b(token|coin|currency|crypto|digital|blockchain)\b matches at position i:
\* the lengths of the match (no word of the list is a prefix of another)
GenericAt(s, i) ==
  {Len(w) : w \in {g \in GenericWords :
     /\ At(toLowerCase(s), g, i)
     /\ (i = 1 \/ ~IsWordChar(s[i - 1]))
     /\ (i + Len(g) > Len(s) \/ ~IsWordChar(s[i + Len(g)]))}}

\* tokenName.replace(/\b(token|...)\b/gi, ''), from position i on
RECURSIVE removeGeneric(_, _)
removeGeneric(s, i) ==
  IF i > Len(s) THEN <<>>
  ELSE IF GenericAt(s, i) # {}
       THEN removeGeneric(s, i + Max(GenericAt(s, i)))
       ELSE <<s[i]>> \o removeGeneric(s, i + 1)

\* cleanName.split(/\s+/).filter(word => word.length > 0), from position i on
RECURSIVE splitWords(_, _)
splitWords(s, i) ==
  IF i > Len(s) THEN <<>>
  ELSE IF s[i] \in Whitespace THEN splitWords(s, i + 1)
  ELSE LET e == Max({j \in i..Len(s) :
                       \A k \in i..j : s[k] \notin Whitespace})
       IN  <<SubSeq(s, i, e)>> \o splitWords(s, e + 1)

\* words.map(word => word.charAt(0).toUpperCase()).join('')
RECURSIVE initials(_)
initials(words) ==
  IF words = <<>> THEN <<>>
  ELSE <<UpperChar(Head(words)[1])>> \o initials(Tail(words))

\* geminiAI: generateTokenSymbol
generateTokenSymbol(tokenName) ==
  LET cleanName == trim(removeGeneric(tokenName, 1))
      words == splitWords(cleanName, 1)
      word == toUpperCase(words[1])
      acronym == substring0(initials(words), 4)
  IN  IF Len(words) = 0 THEN S_TKN
      ELSE IF Len(words) = 1
      THEN IF Len(word) > 4 THEN substring0(word, 4) ELSE word
      ELSE IF Len(words) = 2
      THEN substring0(substring0(toUpperCase(words[1]), 2)
                      \o substring0(toUpperCase(words[2]), 2), 4)
      ELSE IF Len(acronym) < 3 THEN acronym \o <<"N">> ELSE acronym

\* ------------------------------------------------------------------ the oracle's answer (geminiAI)

\* obj.f = v, added or overwritten
setField(obj, f, v) == (f :> v) @@ obj

\* geminiAI parseAIResponse, 201-219: the defaults of a create_token action
tokenDefaults(tokenDetails) ==
  LET d1 == IF ~Truthy(tokenDetails, "decimals")
            THEN setField(tokenDetails, "decimals", <<"1","8">>) ELSE tokenDetails
      d2 == IF ~Truthy(d1, "totalSupply")
            THEN setField(d1, "totalSupply",
                   generateSmartTotalSupply(
                     IF Truthy(d1, "name") THEN d1.name ELSE <<>>))
            ELSE d1
  IN  IF ~Truthy(d2, "symbol") /\ Truthy(d2, "name")
      THEN setField(d2, "symbol", generateTokenSymbol(d2.name)) ELSE d2

\* geminiAI parseAIResponse, 221-245: the validation of a send_transaction action
sendValidation(action) ==
  LET txDetails == IF ~Truthy(action.details, "token")
                   THEN setField(action.details, "token", <<"B","N","B">>)
                   ELSE action.details
      missingFields ==
        (IF ~Truthy(txDetails, "recipient") THEN <<"recipient">> ELSE <<>>)
        \o (IF ~Truthy(txDetails, "amount") THEN <<"amount">> ELSE <<>>)
  IN  [action EXCEPT !.details = txDetails,
                     !.missingFields = missingFields,
                     !.isComplete = (Len(missingFields) = 0)]

\* a bug plainReply could have: the text of the oracle is dropped
plainReply_withoutText(aiResponse) ==
  [response |-> "", action |-> NULL, requiresConfirmation |-> FALSE]

\* geminiAI parseAIResponse, 190-197 and 256-263: the plain reply
plainReply(aiResponse) ==
  [response |-> aiResponse.text, action |-> NULL, requiresConfirmation |-> FALSE]

\* geminiAI parseAIResponse.  aiResponse.fenced: the text has a fenced json block;
\* aiResponse.json: what JSON.parse makes of the block, NULL when it throws
parseAIResponse(aiResponse) ==
  IF ~aiResponse.fenced THEN plainReply(aiResponse)
  ELSE IF aiResponse.json = NULL THEN plainReply(aiResponse)
  ELSE
    LET parsedJson == aiResponse.json
        kind == IF parsedJson.action = NULL THEN "" ELSE parsedJson.action.action
        throws == /\ kind \in {"create_token", "send_transaction"}
                  /\ "details" \notin DOMAIN parsedJson.action
        a1 == IF kind = "create_token"
              THEN [parsedJson.action EXCEPT !.details = tokenDefaults(@)]
              ELSE parsedJson.action
        a2 == IF kind = "send_transaction" THEN sendValidation(a1) ELSE a1
        a3 == IF kind = "upload_nft" THEN setField(a2, "isComplete", TRUE) ELSE a2
    IN  IF throws THEN plainReply(aiResponse)
        ELSE [response |-> IF "response" \in DOMAIN parsedJson
                           THEN parsedJson.response ELSE aiResponse.text,
              action |-> a3,
              requiresConfirmation |->
                IF kind = "upload_nft" THEN TRUE
                ELSE "requiresConfirmation" \in DOMAIN parsedJson
                     /\ parsedJson.requiresConfirmation]

\* geminiAI processUserInput, 64-71: the fixed reply when the oracle call throws
ApologyResult ==
  [response |-> "I apologize, but I encountered an error processing your request. Please try again.",
   action |-> NULL, requiresConfirmation |-> FALSE]

\* geminiAI processUserInput: outcome.throws, or the text outcome.aiResponse
processUserInput(outcome) ==
  IF outcome.throws THEN ApologyResult ELSE parseAIResponse(outcome.aiResponse)

\* geminiAI generateConfirmationMessage: the template of the message
generateConfirmationMessage(action) ==
  CASE action.action = "create_token" -> "Token Creation Confirmation"
    [] action.action = "upload_nft" -> "NFT Upload Ready"
    [] action.action = "mint_nft" -> "NFT Minting Confirmation"
    [] action.action = "send_transaction" -> "Transaction Confirmation"
    [] OTHER -> "Confirmation Required"

\* what the collaborators of one composition do: the import of geminiAI:269
\* (imported), the fee data of the provider at the estimate (estimate) and at
\* the cost in dollars (costUSD), each thrown or with a gas price in gwei
\* (0: none given), and the price lookup, thrown by every source or with a
\* price in dollars.  Without failures: every fee call answers.
FeeOutcomes(withFailures) ==
  LET answered == [throws |-> FALSE, gasPrice |-> 2]
      feeData == {[throws |-> TRUE, gasPrice |-> 0],
                  [throws |-> FALSE, gasPrice |-> 0], answered}
      quoted == [throws |-> FALSE, price |-> 900]
      lookups == {[throws |-> TRUE, price |-> 0], quoted}
  IN  [imported : BOOLEAN,
       estimate : IF withFailures THEN feeData ELSE {answered},
       costUSD : IF withFailures THEN feeData ELSE {answered},
       lookup : IF withFailures THEN lookups ELSE {quoted}]

\* BlockchainService.estimateGas without its catch
estimateGas_uncaught(operation, feeData) ==
  [throws |-> feeData.throws, value |-> 0]

\* BlockchainService.estimateGas, in gwei: gasLimit * gasPrice, the gas price
\* defaulting to 1 gwei; 0.0001 BNB (100000 gwei) when anything throws
estimateGas(operation, feeData) ==
  IF feeData.throws
  THEN [throws |-> FALSE, value |-> 100000]
  ELSE LET gasPrice == IF feeData.gasPrice # 0 THEN feeData.gasPrice ELSE 1
           gasLimit == CASE operation = "token" -> 500000
                         [] operation = "nft" -> 200000
                         [] OTHER -> 21000
       IN  [throws |-> FALSE, value |-> gasLimit * gasPrice]

\* PriceService.getBNBPrice: the price of the sources (or of the cache), 600
\* when the lookup throws
getBNBPrice(lookup) ==
  [throws |-> FALSE, price |-> IF lookup.throws THEN 600 ELSE lookup.price]

\* BlockchainService.getGasCostUSD, in 1/10000 dollar (toFixed(4)); the
\* fallback costs when a call in it throws
getGasCostUSD(operation, feeData, lookup) ==
  LET gasCostBNB == estimateGas(operation, feeData)
      priceData == getBNBPrice(lookup)
  IN  IF gasCostBNB.throws \/ priceData.throws
      THEN CASE operation = "token" -> 2700
             [] operation = "nft" -> 900
             [] OTHER -> 90
      ELSE (gasCostBNB.value * priceData.price + 50000) \div 100000

\* geminiAI:267-352: whether generateConfirmationMessage throws, and the gas
\* line of its text (272-275, 304-307 and 324-327; the other kinds have none)
gasQuote(action, fees) ==
  LET operation == CASE action.action = "create_token" -> "token"
                     [] action.action = "mint_nft" -> "nft"
                     [] action.action = "send_transaction" -> "transfer"
                     [] OTHER -> ""
      estimate == estimateGas(operation, fees.estimate)
  IN  IF ~fees.imported
      THEN [throws |-> TRUE]
      ELSE IF operation = ""
      THEN [throws |-> FALSE]
      ELSE IF estimate.throws
      THEN [throws |-> TRUE]
      ELSE [throws |-> FALSE, gas |-> estimate.value,
            usd |-> getGasCostUSD(operation, fees.costUSD, fees.lookup)]

\* the oracle's texts of the runs
S_Dragon == <<"D","r","a","g","o","n"," ","Q","u","e","s","t"," ","T","o","k","e","n">>
S_Sunrise == <<"S","u","n","r","i","s","e">>

R_chat == [text |-> "Hello! How can I help?", fenced |-> FALSE, json |-> NULL]

R_broken == [text |-> "[json block] {oops", fenced |-> TRUE, json |-> NULL]

R_token ==
  [text |-> "[json block] {create_token}", fenced |-> TRUE,
   json |-> [response |-> "I will create the token.",
             action |-> [action |-> "create_token", confidence |-> 95,
                         details |-> [name |-> S_Dragon],
                         missingFields |-> <<>>, isComplete |-> TRUE],
             requiresConfirmation |-> TRUE]]

R_upload ==
  [text |-> "[json block] {upload_nft}", fenced |-> TRUE,
   json |-> [response |-> "Please upload your image.",
             action |-> [action |-> "upload_nft", confidence |-> 95,
                         details |-> [name |-> S_Sunrise],
                         missingFields |-> <<>>, isComplete |-> FALSE],
             requiresConfirmation |-> FALSE]]

R_uploadBare ==
  [text |-> "[json block] {upload_nft}", fenced |-> TRUE,
   json |-> [response |-> "Please upload your image.",
             action |-> [action |-> "upload_nft", confidence |-> 95,
                         details |-> <<>>,
                         missingFields |-> <<>>, isComplete |-> TRUE],
             requiresConfirmation |-> TRUE]]

R_balance ==
  [text |-> "[json block] {check_balance}", fenced |-> TRUE,
   json |-> [response |-> "I will check your balance.",
             action |-> [action |-> "check_balance", confidence |-> 95,
                         details |-> <<>>,
                         missingFields |-> <<>>, isComplete |-> TRUE],
             requiresConfirmation |-> TRUE]]

R_transactions ==
  [text |-> "[json block] {get_transactions}", fenced |-> TRUE,
   json |-> [response |-> "I will list your transactions.",
             action |-> [action |-> "get_transactions", confidence |-> 90,
                         details |-> <<>>,
                         missingFields |-> <<>>, isComplete |-> TRUE],
             requiresConfirmation |-> TRUE]]

R_unknown ==
  [text |-> "[json block] {unknown}", fenced |-> TRUE,
   json |-> [response |-> "I am not sure what you mean.",
             action |-> [action |-> "unknown", confidence |-> 20,
                         details |-> <<>>,
                         missingFields |-> <<>>, isComplete |-> TRUE],
             requiresConfirmation |-> TRUE]]

\* a block with no action
R_noAction ==
  [text |-> "[json block] {no action}", fenced |-> TRUE,
   json |-> [response |-> "BNB Chain is a blockchain.", action |-> NULL,
             requiresConfirmation |-> FALSE]]

\* a create_token action with no details: parseAIResponse throws at 205
R_tokenNoDetails ==
  [text |-> "[json block] {create_token, no details}", fenced |-> TRUE,
   json |-> [response |-> "I will create the token.",
             action |-> [action |-> "create_token", confidence |-> 95,
                         missingFields |-> <<>>, isComplete |-> TRUE],
             requiresConfirmation |-> TRUE]]

\* a create_token action the oracle calls complete, with no name
R_tokenNameless ==
  [text |-> "[json block] {create_token, no name}", fenced |-> TRUE,
   json |-> [response |-> "I will create the token.",
             action |-> [action |-> "create_token", confidence |-> 60,
                         details |-> [symbol |-> S_TKN],
                         missingFields |-> <<>>, isComplete |-> TRUE],
             requiresConfirmation |-> TRUE]]

\* a create_token action the oracle calls incomplete
R_tokenAsks ==
  [text |-> "[json block] {create_token, asks}", fenced |-> TRUE,
   json |-> [response |-> "What should the token be called?",
             action |-> [action |-> "create_token", confidence |-> 80,
                         details |-> <<>>,
                         missingFields |-> <<"name">>, isComplete |-> FALSE],
             requiresConfirmation |-> FALSE]]

S_address == <<"0","x">> \o [i \in 1..40 |-> IF i % 2 = 0 THEN "a" ELSE "1"]

R_send ==
  [text |-> "[json block] {send_transaction}", fenced |-> TRUE,
   json |-> [response |-> "I will send the BNB.",
             action |-> [action |-> "send_transaction", confidence |-> 95,
                         details |-> [recipient |-> S_address, amount |-> <<"0",".","5">>],
                         missingFields |-> <<>>, isComplete |-> TRUE],
             requiresConfirmation |-> TRUE]]

\* a recipient that is no address and an amount below zero
R_sendBad ==
  [text |-> "[json block] {send_transaction, bad fields}", fenced |-> TRUE,
   json |-> [response |-> "I will send the BNB.",
             action |-> [action |-> "send_transaction", confidence |-> 95,
                         details |-> [recipient |-> <<"b","o","b">>, amount |-> <<"-","1">>],
                         missingFields |-> <<>>, isComplete |-> TRUE],
             requiresConfirmation |-> TRUE]]

\* no amount, and the oracle calls the action complete all the same
R_sendNoAmount ==
  [text |-> "[json block] {send_transaction, no amount}", fenced |-> TRUE,
   json |-> [response |-> "How much should I send?",
             action |-> [action |-> "send_transaction", confidence |-> 95,
                         details |-> [recipient |-> S_address],
                         missingFields |-> <<>>, isComplete |-> TRUE],
             requiresConfirmation |-> TRUE]]

S_morning == <<"a"," ","m","o","r","n","i","n","g"," ","s","k","y">>

\* an upload_nft action that brings a description and no name
R_uploadDescribed ==
  [text |-> "[json block] {upload_nft, description}", fenced |-> TRUE,
   json |-> [response |-> "Please upload your image.",
             action |-> [action |-> "upload_nft", confidence |-> 95,
                         details |-> [description |-> S_morning],
                         missingFields |-> <<"name">>, isComplete |-> FALSE],
             requiresConfirmation |-> TRUE]]

\* an upload_nft action with no details field
R_uploadNoDetails ==
  [text |-> "[json block] {upload_nft, no details}", fenced |-> TRUE,
   json |-> [response |-> "Please upload your image.",
             action |-> [action |-> "upload_nft", confidence |-> 95,
                         missingFields |-> <<>>, isComplete |-> TRUE],
             requiresConfirmation |-> FALSE]]

\* what the oracle call may do in the runs of Spec
OracleResponses == {R_chat, R_token, R_upload, R_uploadBare, R_balance}

\* every form of answer parseAIResponse tells apart
AllResponses ==
  OracleResponses
  \cup {R_broken, R_noAction, R_transactions, R_unknown,
        R_tokenNoDetails, R_tokenNameless, R_tokenAsks,
        R_send, R_sendBad, R_sendNoAmount,
        R_uploadDescribed, R_uploadNoDetails}

OutcomesOf(responses) ==
  {[throws |-> TRUE]} \cup {[throws |-> FALSE, aiResponse |-> r] : r \in responses}

OracleOutcomes == OutcomesOf(OracleResponses)

AllOutcomes == OutcomesOf(AllResponses)

\* the names of the tokens of the runs of DefaultsSpec: none, one, two, three
\* and more words left after the generic words are removed, short and long
TokenNames ==
  {<<"G","o">>,
   <<"X">>,
   <<"S","u","n">>,
   <<"M","o","o","n">>,
   <<"D","r","a","g","o","n">>,
   <<"A","I"," ","T","o","k","e","n">>,
   <<"T","o","k","e","n">>,
   <<"C","r","y","p","t","o"," ","C","o","i","n">>,
   <<"d","i","g","i","t","a","l"," ","c","u","r","r","e","n","c","y">>,
   <<"D","r","a","g","o","n"," ","Q","u","e","s","t">>,
   <<"A"," ","B">>,
   <<"A","b"," ","C">>,
   <<"M","y"," ","B","i","g"," ","D","o","g">>,
   <<"a"," ","b"," ","c"," ","d"," ","e">>,
   <<"G","r","e","e","n"," ","E","n","e","r","g","y"," ","U","t","i","l","i","t","y"," ","T","o","k","e","n">>,
   <<"B","i","t","c","o","i","n">>,
   <<"M","o","o","n"," ","D","o","g","e"," ","C","o","i","n">>,
   <<" "," ","S","u","n"," "," ">>,
   <<"G","a","m","e","-","T","o","k","e","n">>,
   <<"B","l","o","c","k","c","h","a","i","n"," ","G","a","m","i","n","g"," ","G","u","i","l","d"," ","R","e","w","a","r","d","s">>,
   <<"U","S","D"," ","S","t","a","b","l","e">>,
   <<"X"," ","Y"," ","Z">>,
   <<"V","o","t","e"," ","D","A","O">>,
   <<"P","e","p","e">>}

\* the oracle answers create_token with a name and nothing else
TokenOutcomes ==
  {[throws |-> FALSE,
    aiResponse |->
      [text |-> "[json block] {create_token, name}", fenced |-> TRUE,
       json |-> [response |-> "I will create the token.",
                 action |-> [action |-> "create_token", confidence |-> 95,
                             details |-> [name |-> name],
                             missingFields |-> <<>>, isComplete |-> TRUE],
                 requiresConfirmation |-> TRUE]]] : name \in TokenNames}

\* geminiAI processUserInput, for each outcome of the oracle call
Results == [outcome \in AllOutcomes \cup TokenOutcomes |-> processUserInput(outcome)]

\* ------------------------------------------------------------------ the environment

\* what the user may type into the input box
Inputs ==
  {<<" ">> \o S_yes, <<"Y">>, <<"C","o","n","f","i","r","m">>,
   <<"P","r","o","c","e","e","d"," ">>, <<"O","K">>, S_sure,
   S_no, <<"N">>, <<"C","a","n","c","e","l"," ">>, S_abort, <<"S","T","O","P">>,
   <<"C","a","l","l"," ","i","t"," ","D","a","w","n">>,
   <<"J","u","s","t"," ">> \o S_mint \o <<" ","i","t">>, <<"S","k","i","p">>,
   S_no_description, S_create \o <<" ","a","n"," ">> \o S_nft \o <<" ","a","n","d"," ">> \o S_skip,
   S_yes \o <<" ">> \o S_sure, S_ok \o <<"a","y">>, <<" ">>}

\* the files the user may choose (size in bytes)
F_image == [name |-> "dawn.png", type |-> "image/png", size |-> 2048]
F_text == [name |-> "notes.txt", type |-> "text/plain", size |-> 2048]
Files == {F_image, F_text}

\* greenfieldService validateImageFile
validateImageFile(file) ==
  LET maxSize == 100 * 1024 * 1024
      allowedTypes == {"image/jpeg", "image/jpg", "image/png", "image/gif", "image/webp"}
  IN  IF file.type \notin allowedTypes
      THEN [valid |-> FALSE,
            error |-> "Please upload a valid image file (JPEG, PNG, GIF, or WebP)"]
      ELSE IF file.size > maxSize
      THEN [valid |-> FALSE, error |-> "File size must be less than 100MB"]
      ELSE [valid |-> TRUE]

\* what GreenfieldService.uploadImage may return
UploadOutcomes ==
  {[success |-> TRUE, url |-> "greenfield://dawn.png"],
   [success |-> FALSE, error |-> "Failed to initialize bucket"]}

\* what a submission operation of BlockchainService may return (it catches
\* every error and reports it: blockchainService.ts:96-101, 409-414, 559-565)
SubmissionOutcomes ==
  {[success |-> TRUE, hash |-> "0xabc"],
   [success |-> FALSE, error |-> "Insufficient balance"]}

\* blockchainService sendTransaction, 434: ethers.isAddress, for texts in one
\* letter case (a text in mixed case also needs a valid checksum)
isAddress(s) ==
  LET HexDigits == {"0","1","2","3","4","5","6","7","8","9",
                    "a","b","c","d","e","f","A","B","C","D","E","F"}
  IN  /\ Len(s) = 42
      /\ s[1] = "0" /\ s[2] = "x"
      /\ \A i \in 3..42 : s[i] \in HexDigits

\* blockchainService sendTransaction, 438-441: parseFloat(amount) is a number
\* above zero.  parseFloat reads the longest numeric start of the text: a sign,
\* digits, at most one dot
amountIsPositive(s) ==
  LET digits == {"0","1","2","3","4","5","6","7","8","9"}
      start == IF s # <<>> /\ s[1] = "+" THEN 2 ELSE 1
      stop == Min({i \in start..Len(s) :
                     /\ s[i] \notin digits
                     /\ ~(s[i] = "." /\ \A j \in start..(i - 1) : s[j] # ".")}
                  \cup {Len(s) + 1})
  IN  \E i \in start..(stop - 1) : s[i] \in digits \ {"0"}

\* walletStore: what a read of the wallet may find (the wallet store is set and
\* cleared outside the conversation)
TheWallet == [address |-> "0xA11CE", privateKey |-> "U2FsdGVk"]
Wallets == {NULL, [TheWallet EXCEPT !.privateKey = ""], TheWallet}

\* a bug hasPrivateKey could have: only the wallet is looked at, not its key
hasPrivateKey_walletOnly(wallet) == wallet # NULL

\* conversationStore:107, UploadButton.tsx:24 and :87
hasPrivateKey(wallet) == wallet # NULL /\ wallet.privateKey # ""

\* ------------------------------------------------------------------ the store (conversationStore)

\* ConversationMessage: the author, the template of the content, the text the
\* assistant puts into the template, and the upload control (the text a user
\* typed, the attached action and the image only decorate the message: no
\* handler reads them back)
Message(type, content, arg, showUpload) ==
  [type |-> type, content |-> content, arg |-> arg, showUpload |-> showUpload]

AiMessage(content, arg) == Message("ai", content, arg, FALSE)

\* geminiAI:267-352: the confirmation text is written from the details of the
\* action (name, symbol, supply, recipient, amount, ...) and the gas line;
\* shows and quote keep them
ConfirmationMessage(content, arg, action, fees) ==
  ("shows" :> action.details) @@ ("quote" :> gasQuote(action, fees))
    @@ AiMessage(content, arg)

\* conversationStore:40-47 and 80-87
WelcomeMessage == AiMessage("welcome", "")

\* conversationStore addMessage
addMessage(list, message) == Append(list, message)

\* conversationStore:181-186, and :165-170 for a reported failure
FailedMessage(text) == AiMessage("Transaction Failed", text)

\* conversationStore:142-163
SuccessMessage(result) == AiMessage("Transaction Successful", result.hash)

\* PendingAction
NewPendingAction(action, id) ==
  [action |-> action, messageId |-> id, isWaitingForConfirmation |-> TRUE]

\* a handler may reach its first await
HasRoom == Len(tasks) < MaxTasks

\* a handler reaches its first await: it joins the handlers in flight
Spawned(task) == Append(tasks, task)

\* the handler at position t returns
Finished(t) == SubSeq(tasks, 1, t - 1) \o SubSeq(tasks, t + 1, Len(tasks))

\* does handler t wait at pc of a handler of this kind?
IsAt(t, kind, pc) ==
  t \in DOMAIN tasks /\ tasks[t].kind = kind /\ tasks[t].pc = pc

\* the user writes only below the transcript length of the run, and starts what
\* may end in a new PendingAction only below the number of them of the run
WithinBounds == Len(messages) < MaxMessages
MayStart == WithinBounds /\ nextId <= MaxPending /\ HasRoom

Init ==
  /\ messages = <<WelcomeMessage>>
  /\ pendingAction = NULL
  /\ isProcessing = FALSE
  /\ uploadedImage = NULL
  /\ isWaitingForNFTDetails = FALSE
  /\ pendingNFTDetails = NULL
  /\ tasks = <<>>
  /\ nextId = 1
  /\ submissions = <<>>
  /\ clears = 0

\* a bug ClearChat could have: the PendingAction is left in the store
ClearChat_keepsPending ==
  /\ clears < MaxClears
  /\ clears' = clears + 1
  /\ messages' = <<WelcomeMessage>>
  /\ isProcessing' = FALSE
  /\ tasks' = [t \in DOMAIN tasks |->
                 IF tasks[t].kind = "upload"
                 THEN [tasks[t] EXCEPT !.button = 0] ELSE tasks[t]]
  /\ UNCHANGED <<pendingAction, uploadedImage, isWaitingForNFTDetails,
                 pendingNFTDetails, nextId, submissions>>

\* AIChat.tsx:360-362 handleClearChat, conversationStore:78-91 clearConversation;
\* the upload buttons of the old messages are unmounted
ClearChat ==
  /\ clears < MaxClears
  /\ clears' = clears + 1
  /\ messages' = <<WelcomeMessage>>
  /\ pendingAction' = NULL
  /\ isProcessing' = FALSE
  /\ tasks' = [t \in DOMAIN tasks |->
                 IF tasks[t].kind = "upload"
                 THEN [tasks[t] EXCEPT !.button = 0] ELSE tasks[t]]
  /\ UNCHANGED <<uploadedImage, isWaitingForNFTDetails,
                 pendingNFTDetails, nextId, submissions>>

\* ------------------------------------------------------------------ persistence (conversationStore persist)

\* the number of messages partialize keeps
KeptMessages == 50

\* the longest conversation of the runs
MaxConversation == 53

\* Date.prototype.toISOString at conversationStore:205.  A Date is its time
\* value, held as the day since 1970-01-01 and the millisecond of the day; the
\* text is YYYY-MM-DDTHH:mm:ss.sssZ
toISOString(date) ==
  LET digit(n) == <<"0","1","2","3","4","5","6","7","8","9">>[n + 1]
      pad2(n) == <<digit(n \div 10), digit(n % 10)>>
      pad3(n) == <<digit(n \div 100)>> \o pad2(n % 100)
      pad4(n) == pad2(n \div 100) \o pad2(n % 100)
      z == date.day + 719468
      era == z \div 146097
      doe == z - era * 146097
      yoe == (doe - doe \div 1460 + doe \div 36524 - doe \div 146096) \div 365
      doy == doe - (365 * yoe + yoe \div 4 - yoe \div 100)
      mp == (5 * doy + 2) \div 153
      d == doy - (153 * mp + 2) \div 5 + 1
      m == IF mp < 10 THEN mp + 3 ELSE mp - 9
      y == yoe + era * 400 + (IF m <= 2 THEN 1 ELSE 0)
      ms == date.ms % 1000
      sec == (date.ms \div 1000) % 60
      min == (date.ms \div 60000) % 60
      hour == date.ms \div 3600000
  IN  pad4(y) \o <<"-">> \o pad2(m) \o <<"-">> \o pad2(d) \o <<"T">>
        \o pad2(hour) \o <<":">> \o pad2(min) \o <<":">> \o pad2(sec)
        \o <<".">> \o pad3(ms) \o <<"Z">>

\* new Date(text) at conversationStore:214, for a text of the form toISOString
\* writes
newDate(text) ==
  LET val(c) == CHOOSE n \in 0..9 :
                  <<"0","1","2","3","4","5","6","7","8","9">>[n + 1] = c
      num2(i) == val(text[i]) * 10 + val(text[i + 1])
      year == num2(1) * 100 + num2(3)
      m == num2(6)
      d == num2(9)
      y == IF m <= 2 THEN year - 1 ELSE year
      era == y \div 400
      yoe == y - era * 400
      doy == (153 * (IF m > 2 THEN m - 3 ELSE m + 9) + 2) \div 5 + d - 1
      doe == yoe * 365 + yoe \div 4 - yoe \div 100 + doy
  IN  [day |-> era * 146097 + doe - 719468,
       ms |-> ((num2(12) * 60 + num2(15)) * 60 + num2(18)) * 1000
                + val(text[21]) * 100 + num2(22)]

\* The messages of a session are kept without their id and time: only a
\* message kept with them (one with a timestamp) has the fields the
\* conversions work on.

\* partialize keeping the first messages instead of the last
partialize_fromStart(list) ==
  LET kept == SubSeq(list, 1, Min({Len(list), KeptMessages}))
  IN  [i \in DOMAIN kept |->
         IF "timestamp" \in DOMAIN kept[i]
         THEN [kept[i] EXCEPT !.timestamp = toISOString(@)]
         ELSE kept[i]]

\* conversationStore:202-207 partialize
partialize(list) ==
  LET kept == SubSeq(list, Max({Len(list) - KeptMessages, 0}) + 1, Len(list))
  IN  [i \in DOMAIN kept |->
         IF "timestamp" \in DOMAIN kept[i]
         THEN [kept[i] EXCEPT !.timestamp = toISOString(@)]
         ELSE kept[i]]

\* conversationStore:201: the storage of persist (localStorage through
\* JSON.stringify and JSON.parse): the texts of a stored message are written
\* between quotes with \" \\ and \n escaped, and read back
storage(persisted) ==
  LET quote == "\""
      backslash == "\\"
      RECURSIVE escape(_)
      escape(text) ==
        IF text = <<>> THEN <<>>
        ELSE (IF Head(text) \in {quote, backslash} THEN <<backslash, Head(text)>>
              ELSE IF Head(text) = "\n" THEN <<backslash, "n">>
              ELSE <<Head(text)>>) \o escape(Tail(text))
      RECURSIVE unescape(_)
      unescape(text) ==
        IF text = <<>> THEN <<>>
        ELSE IF Head(text) = backslash
        THEN <<IF text[2] = "n" THEN "\n" ELSE text[2]>> \o unescape(Tail(Tail(text)))
        ELSE <<Head(text)>> \o unescape(Tail(text))
      stringify(text) == <<quote>> \o escape(text) \o <<quote>>
      parse(json) == unescape(SubSeq(json, 2, Len(json) - 1))
      written == [i \in DOMAIN persisted |->
                    IF "timestamp" \in DOMAIN persisted[i]
                    THEN [persisted[i] EXCEPT !.id = stringify(@),
                                              !.content = stringify(@),
                                              !.timestamp = stringify(@)]
                    ELSE persisted[i]]
  IN  [i \in DOMAIN written |->
         IF "timestamp" \in DOMAIN written[i]
         THEN [written[i] EXCEPT !.id = parse(@),
                                 !.content = parse(@),
                                 !.timestamp = parse(@)]
         ELSE written[i]]

\* conversationStore:208-218 merge: the messages of the restored state
merge(persisted) ==
  [i \in DOMAIN persisted |->
     IF "timestamp" \in DOMAIN persisted[i]
     THEN [persisted[i] EXCEPT !.timestamp = newDate(@)]
     ELSE persisted[i]]

\* long conversations kept with ids and times: the welcome message, then user
\* and assistant messages in turn, 7 h 13 min 7.123 s apart, from a day before
\* the end of February (of a leap year, of the years 2000 and 2100), before the
\* end of a year and in the autumn of 2026
Conversations ==
  LET digit(n) == <<"0","1","2","3","4","5","6","7","8","9">>[n + 1]
      contents == << <<"H","i","!","\n","\n","I","'","m"," ","A","I">>,
                     <<"s","a","y"," ","\"","y","e","s","\"">>,
                     <<"C",":","\\","n","f","t","\\","a",".","p","n","g">>,
                     <<"\\","\"">>,
                     <<>>,
                     <<"o","k">> >>
      step == 25987123
      stored(i, day) ==
        [id |-> IF i = 1 THEN <<"w","e","l","c","o","m","e">>
                ELSE <<"1","7",digit(i \div 10),digit(i % 10),"x","9","k">>,
         type |-> IF i % 2 = 0 THEN "user" ELSE "ai",
         content |-> contents[(i % 6) + 1],
         timestamp |-> [day |-> day + (i * step) \div 86400000,
                        ms |-> (i * step) % 86400000]]
  IN  {[i \in 1..n |-> stored(i, day)] :
         n \in 1..MaxConversation, day \in {11007, 19773, 20447, 20754, 47532}}

\* a bug Rehydrate could have: the whole store is persisted and restored
Rehydrate_wholeStore ==
  /\ messages' = merge(storage(partialize(messages)))
  /\ uploadedImage' = NULL
  /\ isWaitingForNFTDetails' = FALSE
  /\ pendingNFTDetails' = NULL
  /\ tasks' = <<>>
  /\ UNCHANGED <<pendingAction, isProcessing, nextId, submissions, clears>>

\* the page is loaded again: the store is created anew (conversationStore:
\* 40-49) and takes the messages of the storage (200-219); the component
\* starts from its initial state (AIChat.tsx:21-24) and the handlers in flight
\* are gone with the old page
Rehydrate ==
  /\ messages' = merge(storage(partialize(messages)))
  /\ pendingAction' = NULL
  /\ isProcessing' = FALSE
  /\ uploadedImage' = NULL
  /\ isWaitingForNFTDetails' = FALSE
  /\ pendingNFTDetails' = NULL
  /\ tasks' = <<>>
  /\ UNCHANGED <<nextId, submissions, clears>>

\* ------------------------------------------------------------------ a user message (AIChat handleSendMessage)

\* What the handlers compute from the text in the input box (inputValue), for
\* each text of the runs: AIChat.tsx:38 (userInput), :135 (normalizedInput) and
\* :265-305 (the name and description read from it)
Typed ==
  [text \in Inputs |->
     [userInput |-> trim(text),
      normalizedInput |-> trim(toLowerCase(trim(text))),
      parsed |-> parseNFTDetails(trim(text))]]

\* AIChat.tsx:36: typing the text and pressing Send is one step; the message is
\* accepted
Accepted(text) ==
  /\ Typed[text].userInput # <<>>
  /\ ~isProcessing
  /\ WithinBounds

\* AIChat.tsx:42-45
UserMessage(text) == Message("user", "userInput", "", FALSE)

\* AIChat.tsx:48
AwaitingConfirmation ==
  pendingAction # NULL /\ pendingAction.isWaitingForConfirmation

\* a bug SendAffirmative could have: confirmAction reads the PendingAction
\* after its imports, not before
SendAffirmative_readsLate(text) ==
  /\ Accepted(text)
  /\ AwaitingConfirmation
  /\ Typed[text].normalizedInput \in Affirmative
  /\ HasRoom
  /\ messages' = addMessage(messages, UserMessage(text))
  /\ isProcessing' = TRUE
  /\ tasks' = Spawned([kind |-> "confirm", pc |-> "import", state |-> NULL])
  /\ UNCHANGED <<pendingAction, uploadedImage, isWaitingForNFTDetails,
                 pendingNFTDetails, nextId, submissions, clears>>

\* AIChat.tsx:48-51, 137-141 and conversationStore:93-101: an affirmative reply;
\* confirmAction reads the store, sets the flag and waits for its imports
SendAffirmative(text) ==
  /\ Accepted(text)
  /\ AwaitingConfirmation
  /\ Typed[text].normalizedInput \in Affirmative
  /\ HasRoom
  /\ messages' = addMessage(messages, UserMessage(text))
  /\ isProcessing' = TRUE
  /\ tasks' = Spawned([kind |-> "confirm", pc |-> "import", state |-> pendingAction])
  /\ UNCHANGED <<pendingAction, uploadedImage, isWaitingForNFTDetails,
                 pendingNFTDetails, nextId, submissions, clears>>

\* a bug SendNegative could have: rejectAction is not called
SendNegative_withoutReject(text) ==
  /\ Accepted(text)
  /\ AwaitingConfirmation
  /\ Typed[text].normalizedInput \notin Affirmative
  /\ Typed[text].normalizedInput \in Negative
  /\ messages' = addMessage(addMessage(messages, UserMessage(text)),
                            AiMessage("Action Cancelled", ""))
  /\ UNCHANGED <<pendingAction, isProcessing, uploadedImage,
                 isWaitingForNFTDetails, pendingNFTDetails, tasks, nextId,
                 submissions, clears>>

\* AIChat.tsx:154-162 and conversationStore:196-198 rejectAction
SendNegative(text) ==
  /\ Accepted(text)
  /\ AwaitingConfirmation
  /\ Typed[text].normalizedInput \notin Affirmative
  /\ Typed[text].normalizedInput \in Negative
  /\ pendingAction' = NULL
  /\ messages' = addMessage(addMessage(messages, UserMessage(text)),
                            AiMessage("Action Cancelled", ""))
  /\ UNCHANGED <<isProcessing, uploadedImage, isWaitingForNFTDetails,
                 pendingNFTDetails, tasks, nextId, submissions, clears>>

\* a bug SendUnclear could have: the PendingAction is dropped with the re-prompt
SendUnclear_dropsPending(text) ==
  /\ Accepted(text)
  /\ AwaitingConfirmation
  /\ Typed[text].normalizedInput \notin Affirmative
  /\ Typed[text].normalizedInput \notin Negative
  /\ pendingAction' = NULL
  /\ messages' = addMessage(addMessage(messages, UserMessage(text)),
                            AiMessage("Please reply Yes or No", ""))
  /\ UNCHANGED <<isProcessing, uploadedImage, isWaitingForNFTDetails,
                 pendingNFTDetails, tasks, nextId, submissions, clears>>

\* AIChat.tsx:163-169
SendUnclear(text) ==
  /\ Accepted(text)
  /\ AwaitingConfirmation
  /\ Typed[text].normalizedInput \notin Affirmative
  /\ Typed[text].normalizedInput \notin Negative
  /\ messages' = addMessage(addMessage(messages, UserMessage(text)),
                            AiMessage("Please reply Yes or No", ""))
  /\ UNCHANGED <<pendingAction, isProcessing, uploadedImage,
                 isWaitingForNFTDetails, pendingNFTDetails, tasks, nextId,
                 submissions, clears>>

\* AIChat.tsx:54-57, 262 and 283-313: the reply goes to the NFT details; no
\* image is kept, or the reply carries no name and the assistant asks for one
SendDetailsReprompt(text) ==
  LET parsed == Typed[text].parsed
  IN  /\ Accepted(text)
      /\ ~AwaitingConfirmation
      /\ isWaitingForNFTDetails
      /\ uploadedImage = NULL \/ parsed.branch # "parsed" \/ parsed.name = <<>>
      /\ messages' =
           IF uploadedImage = NULL THEN addMessage(messages, UserMessage(text))
           ELSE addMessage(addMessage(messages, UserMessage(text)),
                  AiMessage(CASE parsed.branch = "proceed" -> "I need at least a name"
                              [] parsed.branch = "skip" -> "What would you like to name"
                              [] OTHER -> "I need a name", ""))
      /\ UNCHANGED <<pendingAction, isProcessing, uploadedImage,
                     isWaitingForNFTDetails, pendingNFTDetails, tasks,
                     nextId, submissions, clears>>

\* a bug SendDetailsNamed could have: the branch is taken for a kept image
\* instead of the waiting flag
SendDetailsNamed_byImage(text) ==
  LET parsed == Typed[text].parsed
  IN  /\ Accepted(text)
      /\ ~AwaitingConfirmation
      /\ uploadedImage # NULL
      /\ parsed.branch = "parsed" /\ parsed.name # <<>>
      /\ MayStart
      /\ messages' = addMessage(messages, UserMessage(text))
      /\ tasks' = Spawned([kind |-> "details", pc |-> "compose",
                           action |-> nftActionFromReply(parsed, uploadedImage)])
      /\ UNCHANGED <<pendingAction, isProcessing, uploadedImage,
                     isWaitingForNFTDetails, pendingNFTDetails, nextId,
                     submissions, clears>>

\* AIChat.tsx:315-330: the reply carries a name; the handler waits for the
\* confirmation message of the mint_nft action
SendDetailsNamed(text) ==
  LET parsed == Typed[text].parsed
  IN  /\ Accepted(text)
      /\ ~AwaitingConfirmation
      /\ isWaitingForNFTDetails
      /\ uploadedImage # NULL
      /\ parsed.branch = "parsed" /\ parsed.name # <<>>
      /\ MayStart
      /\ messages' = addMessage(messages, UserMessage(text))
      /\ tasks' = Spawned([kind |-> "details", pc |-> "compose",
                           action |-> nftActionFromReply(parsed, uploadedImage)])
      /\ UNCHANGED <<pendingAction, isProcessing, uploadedImage,
                     isWaitingForNFTDetails, pendingNFTDetails, nextId,
                     submissions, clears>>

\* a bug SendIntent could have: the return after the confirmation reply
\* (AIChat.tsx:50) is missing, and the reply goes on to the oracle
SendIntent_withoutReturn(text) ==
  /\ Accepted(text)
  /\ ~isWaitingForNFTDetails
  /\ MayStart
  /\ messages' = addMessage(messages, UserMessage(text))
  /\ isProcessing' = TRUE
  /\ tasks' = Spawned([kind |-> "intent", pc |-> "oracle"])
  /\ UNCHANGED <<pendingAction, uploadedImage, isWaitingForNFTDetails,
                 pendingNFTDetails, nextId, submissions, clears>>

\* AIChat.tsx:59-64: the message goes to the oracle
SendIntent(text) ==
  /\ Accepted(text)
  /\ ~AwaitingConfirmation
  /\ ~isWaitingForNFTDetails
  /\ MayStart
  /\ messages' = addMessage(messages, UserMessage(text))
  /\ isProcessing' = TRUE
  /\ tasks' = Spawned([kind |-> "intent", pc |-> "oracle"])
  /\ UNCHANGED <<pendingAction, uploadedImage, isWaitingForNFTDetails,
                 pendingNFTDetails, nextId, submissions, clears>>

\* AIChat.tsx:35-64 handleSendMessage, up to its first await
handleSendMessage(text) ==
  \/ SendAffirmative(text)
  \/ SendNegative(text)
  \/ SendUnclear(text)
  \/ SendDetailsReprompt(text)
  \/ SendDetailsNamed(text)
  \/ SendIntent(text)

\* ------------------------------------------------------------------ the oracle answers (AIChat handleSendMessage, 64-131)

IntentAt(t, pc) == IsAt(t, "intent", pc)

\* result.action.details.name and .description, where present (AIChat.tsx:71-74)
nameAndDescription(details) ==
  [f \in DOMAIN details \cap {"name", "description"} |-> details[f]]

\* a bug IsUploadRequest could have: the upload control is shown only for a
\* request that names the NFT
IsUploadRequest_whenNamed(result) ==
  /\ result.action # NULL
  /\ result.action.action = "upload_nft"
  /\ result.action.isComplete
  /\ result.requiresConfirmation
  /\ "details" \in DOMAIN result.action
  /\ Truthy(result.action.details, "name")

\* AIChat.tsx:68
IsUploadRequest(result) ==
  /\ result.action # NULL
  /\ result.action.action = "upload_nft"
  /\ result.action.isComplete
  /\ result.requiresConfirmation

\* AIChat.tsx:98
NeedsConfirmation(result) ==
  /\ result.action # NULL
  /\ result.action.isComplete
  /\ result.requiresConfirmation

\* AIChat.tsx:67-85 and 129-131: the upload control is shown
OracleReturnsUpload(t, outcome) ==
  LET result == Results[outcome]
  IN  /\ IntentAt(t, "oracle")
      /\ IsUploadRequest(result)
      /\ pendingNFTDetails' =
           IF "details" \in DOMAIN result.action
           THEN nameAndDescription(result.action.details)
           ELSE pendingNFTDetails
      /\ messages' = addMessage(messages, Message("ai", "reply", result.response, TRUE))
      /\ isProcessing' = FALSE
      /\ tasks' = Finished(t)
      /\ UNCHANGED <<pendingAction, uploadedImage,
                     isWaitingForNFTDetails, nextId, submissions, clears>>

\* a bug OracleReturnsReply could have: the reply is not shown
OracleReturnsReply_silent(t, outcome) ==
  LET result == Results[outcome]
  IN  /\ IntentAt(t, "oracle")
      /\ ~IsUploadRequest(result)
      /\ ~NeedsConfirmation(result)
      /\ isProcessing' = FALSE
      /\ tasks' = Finished(t)
      /\ UNCHANGED <<messages, pendingAction, uploadedImage,
                     isWaitingForNFTDetails, pendingNFTDetails, nextId,
                     submissions, clears>>

\* AIChat.tsx:87-98 and 129-131: a reply that asks for no confirmation
OracleReturnsReply(t, outcome) ==
  LET result == Results[outcome]
  IN  /\ IntentAt(t, "oracle")
      /\ ~IsUploadRequest(result)
      /\ ~NeedsConfirmation(result)
      /\ messages' = addMessage(messages, AiMessage("reply", result.response))
      /\ isProcessing' = FALSE
      /\ tasks' = Finished(t)
      /\ UNCHANGED <<pendingAction, uploadedImage,
                     isWaitingForNFTDetails, pendingNFTDetails, nextId,
                     submissions, clears>>

\* AIChat.tsx:87-102: the reply, then the wait for the confirmation message
OracleReturnsAction(t, outcome) ==
  LET result == Results[outcome]
  IN  /\ IntentAt(t, "oracle")
      /\ ~IsUploadRequest(result)
      /\ NeedsConfirmation(result)
      /\ messages' = addMessage(messages, AiMessage("reply", result.response))
      /\ tasks' = [tasks EXCEPT ![t] =
                     [kind |-> "intent", pc |-> "compose", action |-> result.action]]
      /\ UNCHANGED <<pendingAction, isProcessing, uploadedImage,
                     isWaitingForNFTDetails, pendingNFTDetails, nextId,
                     submissions, clears>>

\* AIChat.tsx:102-113 and 129-131: the confirmation message is shown and the
\* PendingAction set
IntentComposed(t, fees) ==
  /\ IntentAt(t, "compose")
  /\ ~gasQuote(tasks[t].action, fees).throws
  /\ messages' = addMessage(messages,
                   ConfirmationMessage(generateConfirmationMessage(tasks[t].action),
                                       "", tasks[t].action, fees))
  /\ pendingAction' = NewPendingAction(tasks[t].action, nextId)
  /\ nextId' = nextId + 1
  /\ isProcessing' = FALSE
  /\ tasks' = Finished(t)
  /\ UNCHANGED <<uploadedImage, isWaitingForNFTDetails,
                 pendingNFTDetails, submissions, clears>>

\* AIChat.tsx:114-120 and 129-131: generateConfirmationMessage throws (its
\* import fails, geminiAI:269)
IntentComposeFails(t, fees) ==
  /\ IntentAt(t, "compose")
  /\ gasQuote(tasks[t].action, fees).throws
  /\ messages' = addMessage(messages,
                   AiMessage("Error generating confirmation. Please try again.", ""))
  /\ isProcessing' = FALSE
  /\ tasks' = Finished(t)
  /\ UNCHANGED <<pendingAction, uploadedImage, isWaitingForNFTDetails,
                 pendingNFTDetails, nextId, submissions, clears>>

\* AIChat.tsx:330-343: the confirmation message of the NFT made from the reply
DetailsComposed(t, fees) ==
  /\ IsAt(t, "details", "compose")
  /\ ~gasQuote(tasks[t].action, fees).throws
  /\ messages' = addMessage(messages,
                   ConfirmationMessage(generateConfirmationMessage(tasks[t].action),
                                       "", tasks[t].action, fees))
  /\ pendingAction' = NewPendingAction(tasks[t].action, nextId)
  /\ nextId' = nextId + 1
  /\ isWaitingForNFTDetails' = FALSE
  /\ tasks' = Finished(t)
  /\ UNCHANGED <<isProcessing, uploadedImage, pendingNFTDetails,
                 submissions, clears>>

\* AIChat.tsx:344-350
DetailsComposeFails(t, fees) ==
  /\ IsAt(t, "details", "compose")
  /\ gasQuote(tasks[t].action, fees).throws
  /\ messages' = addMessage(messages,
                   AiMessage("Error processing NFT details. Please try again.", ""))
  /\ tasks' = Finished(t)
  /\ UNCHANGED <<pendingAction, isProcessing, uploadedImage,
                 isWaitingForNFTDetails, pendingNFTDetails, nextId,
                 submissions, clears>>

\* ------------------------------------------------------------------ the execution (conversationStore confirmAction)

ConfirmAt(t, pc) == IsAt(t, "confirm", pc)

\* conversationStore:117-137: the submission operation of an action kind
Executable == {"create_token", "mint_nft", "send_transaction"}

\* a bug operationOf could have: a case of the switch calls the wrong operation
operationOf_mintAsToken(kind) ==
  CASE kind = "create_token" -> "createToken"
    [] kind = "mint_nft" -> "createToken"
    [] kind = "send_transaction" -> "sendTransaction"

operationOf(kind) ==
  CASE kind = "create_token" -> "createToken"
    [] kind = "mint_nft" -> "mintNFT"
    [] kind = "send_transaction" -> "sendTransaction"

\* a bug ExecutionThrows could have: the catch does not clear the PendingAction
ExecutionThrows_keepsPending(t, text) ==
  /\ messages' = addMessage(messages, FailedMessage(text))
  /\ isProcessing' = FALSE
  /\ tasks' = Finished(t)
  /\ UNCHANGED <<pendingAction, uploadedImage, isWaitingForNFTDetails,
                 pendingNFTDetails, nextId, submissions, clears>>

\* conversationStore:178-193, then AIChat.tsx:151-153: the catch of
\* confirmAction and the finally of handleConfirmationResponse
ExecutionThrows(t, text) ==
  /\ messages' = addMessage(messages, FailedMessage(text))
  /\ pendingAction' = NULL
  /\ isProcessing' = FALSE
  /\ tasks' = Finished(t)
  /\ UNCHANGED <<uploadedImage, isWaitingForNFTDetails,
                 pendingNFTDetails, nextId, submissions, clears>>

\* conversationStore:101-103: an import fails
ConfirmImportFails(t) ==
  /\ ConfirmAt(t, "import")
  /\ ExecutionThrows(t, "Failed to fetch dynamically imported module")

\* conversationStore:106-109
ConfirmNoWallet(t, wallet) ==
  /\ ConfirmAt(t, "import")
  /\ ~hasPrivateKey(wallet)
  /\ ExecutionThrows(t, "Wallet not connected")

\* conversationStore:136: the text of the error
UnsupportedAction(kind) == "Unsupported action: " \o kind

\* a bug ConfirmUnsupported could have: the default case leaves the PendingAction
ConfirmUnsupported_keepsPending(t, wallet) ==
  /\ ConfirmAt(t, "import")
  /\ hasPrivateKey(wallet)
  /\ tasks[t].state.action.action \notin Executable
  /\ ExecutionThrows_keepsPending(t, UnsupportedAction(tasks[t].state.action.action))

\* conversationStore:135-136
ConfirmUnsupported(t, wallet) ==
  /\ ConfirmAt(t, "import")
  /\ hasPrivateKey(wallet)
  /\ tasks[t].state.action.action \notin Executable
  /\ ExecutionThrows(t, UnsupportedAction(tasks[t].state.action.action))

\* conversationStore:112-133: the submission operation is called with the
\* details of the action read at line 94; the call is logged, with the
\* PendingAction it is made for
ConfirmDispatches(t, wallet) ==
  /\ ConfirmAt(t, "import")
  /\ hasPrivateKey(wallet)
  /\ tasks[t].state.action.action \in Executable
  /\ submissions' = Append(submissions,
       [id |-> tasks[t].state.messageId,
        operation |-> operationOf(tasks[t].state.action.action),
        details |-> tasks[t].state.action.details,
        result |-> NULL])
  /\ tasks' = [tasks EXCEPT ![t] = [kind |-> "confirm", pc |-> "submit",
                                    state |-> tasks[t].state,
                                    call |-> Len(submissions) + 1]]
  /\ UNCHANGED <<messages, pendingAction, isProcessing, uploadedImage,
                 isWaitingForNFTDetails, pendingNFTDetails, nextId, clears>>

\* conversationStore:105-137 confirmAction, from the read of the wallet store
\* to the call of the submission operation
confirmAction(t, wallet) ==
  \/ ConfirmNoWallet(t, wallet)
  \/ ConfirmUnsupported(t, wallet)
  \/ ConfirmDispatches(t, wallet)

\* conversationStore:139-177, then AIChat.tsx:151-153: the result of the
\* submission becomes a message; the PendingAction and the flag are reset
SubmissionReturns(t, result) ==
  /\ ConfirmAt(t, "submit")
  /\ submissions' = [submissions EXCEPT ![tasks[t].call].result = result]
  /\ messages' = addMessage(messages,
                   IF result.success THEN SuccessMessage(result)
                   ELSE FailedMessage(result.error))
  /\ pendingAction' = NULL
  /\ isProcessing' = FALSE
  /\ tasks' = Finished(t)
  /\ UNCHANGED <<uploadedImage, isWaitingForNFTDetails,
                 pendingNFTDetails, nextId, clears>>

\* ------------------------------------------------------------------ the upload (UploadButton, AIChat handleUploadComplete)

UploadAt(t, pc) == IsAt(t, "upload", pc)

\* UploadButton.tsx:84-88: the button of message m can be pressed
ButtonEnabled(m, wallet) ==
  /\ m \in 1..Len(messages)
  /\ messages[m].showUpload
  /\ hasPrivateKey(wallet)
  /\ \A t \in DOMAIN tasks : ~(UploadAt(t, "uploading") /\ tasks[t].button = m)

\* AIChat.tsx:249-258 handleUploadError
UploadFailedMessage(error) == AiMessage("Upload Failed", error)

\* UploadButton.tsx:22-31: the chosen file is rejected
FileRejected(m, file) ==
  /\ \E wallet \in Wallets : ButtonEnabled(m, wallet)
  /\ WithinBounds
  /\ ~validateImageFile(file).valid
  /\ messages' = addMessage(messages,
                   UploadFailedMessage(validateImageFile(file).error))
  /\ UNCHANGED <<pendingAction, isProcessing, uploadedImage,
                 isWaitingForNFTDetails, pendingNFTDetails, tasks, nextId,
                 submissions, clears>>

\* UploadButton.tsx:22-47: the upload starts; the button keeps the
\* handleUploadComplete of this render, which reads this pendingNFTDetails
FileSelected(m, file) ==
  /\ \E wallet \in Wallets : ButtonEnabled(m, wallet)
  /\ MayStart
  /\ validateImageFile(file).valid
  /\ tasks' = Spawned([kind |-> "upload", pc |-> "uploading", button |-> m,
                       file |-> file, pendingNFTDetails |-> pendingNFTDetails])
  /\ UNCHANGED <<messages, pendingAction, isProcessing, uploadedImage,
                 isWaitingForNFTDetails, pendingNFTDetails, nextId,
                 submissions, clears>>

\* a bug UploadFails could have: the error handler also drops the details kept
\* from the request
UploadFails_dropsDetails(t, result) ==
  /\ UploadAt(t, "uploading")
  /\ ~result.success
  /\ messages' = addMessage(messages, UploadFailedMessage(result.error))
  /\ pendingNFTDetails' = NULL
  /\ tasks' = Finished(t)
  /\ UNCHANGED <<pendingAction, isProcessing, uploadedImage,
                 isWaitingForNFTDetails, nextId, submissions, clears>>

\* UploadButton.tsx:54-59: the upload fails
UploadFails(t, result) ==
  /\ UploadAt(t, "uploading")
  /\ ~result.success
  /\ messages' = addMessage(messages, UploadFailedMessage(result.error))
  /\ tasks' = Finished(t)
  /\ UNCHANGED <<pendingAction, isProcessing, uploadedImage,
                 isWaitingForNFTDetails, pendingNFTDetails, nextId,
                 submissions, clears>>

\* AIChat.tsx:173-198: the upload is done and details are kept from the
\* request; the handler waits for the confirmation message
UploadCompleteWithDetails(t, result) ==
  /\ UploadAt(t, "uploading")
  /\ result.success
  /\ hasNFTDetails(tasks[t].pendingNFTDetails)
  /\ uploadedImage' = [url |-> result.url, fileName |-> tasks[t].file.name]
  /\ tasks' = [tasks EXCEPT ![t] =
       [kind |-> "upload", pc |-> "compose", button |-> 0,
        fileName |-> tasks[t].file.name,
        action |-> nftActionFromPending(tasks[t].pendingNFTDetails, result.url)]]
  /\ UNCHANGED <<messages, pendingAction, isProcessing,
                 isWaitingForNFTDetails, pendingNFTDetails, nextId,
                 submissions, clears>>

\* AIChat.tsx:173-177 and 228-245: the upload is done and no details are kept
UploadCompleteNoDetails(t, result) ==
  /\ UploadAt(t, "uploading")
  /\ result.success
  /\ ~hasNFTDetails(tasks[t].pendingNFTDetails)
  /\ uploadedImage' = [url |-> result.url, fileName |-> tasks[t].file.name]
  /\ isWaitingForNFTDetails' = TRUE
  /\ messages' = addMessage(messages, AiMessage("Image uploaded, details needed", ""))
  /\ tasks' = Finished(t)
  /\ UNCHANGED <<pendingAction, isProcessing, pendingNFTDetails,
                 nextId, submissions, clears>>

\* AIChat.tsx:198-217
UploadComposed(t, fees) ==
  /\ UploadAt(t, "compose")
  /\ ~gasQuote(tasks[t].action, fees).throws
  /\ messages' = addMessage(messages,
       ConfirmationMessage("Image uploaded",
                           generateConfirmationMessage(tasks[t].action),
                           tasks[t].action, fees))
  /\ pendingAction' = NewPendingAction(tasks[t].action, nextId)
  /\ nextId' = nextId + 1
  /\ pendingNFTDetails' = NULL
  /\ tasks' = Finished(t)
  /\ UNCHANGED <<isProcessing, uploadedImage, isWaitingForNFTDetails,
                 submissions, clears>>

\* AIChat.tsx:218-227
UploadComposeFails(t, fees) ==
  /\ UploadAt(t, "compose")
  /\ gasQuote(tasks[t].action, fees).throws
  /\ messages' = addMessage(messages,
       AiMessage("Image uploaded, error generating the confirmation", ""))
  /\ tasks' = Finished(t)
  /\ UNCHANGED <<pendingAction, isProcessing, uploadedImage,
                 isWaitingForNFTDetails, pendingNFTDetails, nextId,
                 submissions, clears>>

\* ------------------------------------------------------------------ the specification

Next ==
  \/ ClearChat
  \/ \E text \in Inputs : handleSendMessage(text)
  \/ \E t \in 1..MaxTasks, outcome \in OracleOutcomes :
       \/ OracleReturnsUpload(t, outcome)
       \/ OracleReturnsReply(t, outcome)
       \/ OracleReturnsAction(t, outcome)
  \/ \E t \in 1..MaxTasks, fees \in FeeOutcomes(FALSE) :
       \/ IntentComposed(t, fees)
       \/ IntentComposeFails(t, fees)
       \/ DetailsComposed(t, fees)
       \/ DetailsComposeFails(t, fees)
       \/ UploadComposed(t, fees)
       \/ UploadComposeFails(t, fees)
  \/ \E t \in 1..MaxTasks : ConfirmImportFails(t)
  \/ \E t \in 1..MaxTasks, wallet \in Wallets : confirmAction(t, wallet)
  \/ \E t \in 1..MaxTasks, result \in SubmissionOutcomes : SubmissionReturns(t, result)
  \/ \E m \in 1..MaxMessages, file \in Files :
       \/ FileRejected(m, file)
       \/ FileSelected(m, file)
  \/ \E t \in 1..MaxTasks, result \in UploadOutcomes :
       \/ UploadFails(t, result)
       \/ UploadCompleteWithDetails(t, result)
       \/ UploadCompleteNoDetails(t, result)

Spec == Init /\ [][Next]_vars

\* the same handlers with every form of answer of the oracle and no Clear Chat
OracleNext ==
  \/ \E text \in Inputs : handleSendMessage(text)
  \/ \E t \in 1..MaxTasks, outcome \in AllOutcomes :
       \/ OracleReturnsUpload(t, outcome)
       \/ OracleReturnsReply(t, outcome)
       \/ OracleReturnsAction(t, outcome)
  \/ \E t \in 1..MaxTasks, fees \in FeeOutcomes(TRUE) :
       \/ IntentComposed(t, fees)
       \/ IntentComposeFails(t, fees)
       \/ DetailsComposed(t, fees)
       \/ DetailsComposeFails(t, fees)
       \/ UploadComposed(t, fees)
       \/ UploadComposeFails(t, fees)
  \/ \E t \in 1..MaxTasks : ConfirmImportFails(t)
  \/ \E t \in 1..MaxTasks, wallet \in Wallets : confirmAction(t, wallet)
  \/ \E t \in 1..MaxTasks, result \in SubmissionOutcomes : SubmissionReturns(t, result)
  \/ \E m \in 1..MaxMessages, file \in Files :
       \/ FileRejected(m, file)
       \/ FileSelected(m, file)
  \/ \E t \in 1..MaxTasks, result \in UploadOutcomes :
       \/ UploadFails(t, result)
       \/ UploadCompleteWithDetails(t, result)
       \/ UploadCompleteNoDetails(t, result)

OracleSpec == Init /\ [][OracleNext]_vars

\* the defaults of create_token: a request for a token is at the oracle, which
\* will answer with one of the names; the turn goes on to the confirmation and
\* the reply of the user
DefaultsInit ==
  /\ \E outcome \in TokenOutcomes :
       tasks = <<[kind |-> "intent", pc |-> "oracle", outcome |-> outcome]>>
  /\ messages = <<WelcomeMessage, UserMessage(S_yes)>>
  /\ isProcessing = TRUE
  /\ pendingAction = NULL
  /\ uploadedImage = NULL
  /\ isWaitingForNFTDetails = FALSE
  /\ pendingNFTDetails = NULL
  /\ nextId = 1
  /\ submissions = <<>>
  /\ clears = 0

DefaultsNext ==
  \/ \E t \in 1..MaxTasks : OracleReturnsAction(t, tasks[t].outcome)
  \/ \E t \in 1..MaxTasks, fees \in FeeOutcomes(FALSE) :
       \/ IntentComposed(t, fees)
       \/ IntentComposeFails(t, fees)
  \/ \E t \in 1..MaxTasks : ConfirmImportFails(t)
  \/ \E text \in Inputs :
       \/ SendAffirmative(text)
       \/ SendNegative(text)
       \/ SendUnclear(text)
  \/ \E t \in 1..MaxTasks, wallet \in Wallets :
       \/ ConfirmNoWallet(t, wallet)
       \/ ConfirmDispatches(t, wallet)
  \/ \E t \in 1..MaxTasks, result \in SubmissionOutcomes : SubmissionReturns(t, result)

DefaultsSpec == DefaultsInit /\ [][DefaultsNext]_vars

\* the persistence of long conversations: an idle session holds one of them
\* and the page is loaded again
PersistInit ==
  /\ messages \in Conversations
  /\ pendingAction = NULL
  /\ isProcessing = FALSE
  /\ uploadedImage = NULL
  /\ isWaitingForNFTDetails = FALSE
  /\ pendingNFTDetails = NULL
  /\ tasks = <<>>
  /\ nextId = 1
  /\ submissions = <<>>
  /\ clears = 0

PersistSpec == PersistInit /\ [][Rehydrate]_vars

\* the sessions, with the page loaded again at any moment (and no Clear Chat)
RestoreNext ==
  \/ Rehydrate
  \/ \E text \in Inputs : handleSendMessage(text)
  \/ \E t \in 1..MaxTasks, outcome \in OracleOutcomes :
       \/ OracleReturnsUpload(t, outcome)
       \/ OracleReturnsReply(t, outcome)
       \/ OracleReturnsAction(t, outcome)
  \/ \E t \in 1..MaxTasks, fees \in FeeOutcomes(FALSE) :
       \/ IntentComposed(t, fees)
       \/ IntentComposeFails(t, fees)
       \/ DetailsComposed(t, fees)
       \/ DetailsComposeFails(t, fees)
       \/ UploadComposed(t, fees)
       \/ UploadComposeFails(t, fees)
  \/ \E t \in 1..MaxTasks : ConfirmImportFails(t)
  \/ \E t \in 1..MaxTasks, wallet \in Wallets : confirmAction(t, wallet)
  \/ \E t \in 1..MaxTasks, result \in SubmissionOutcomes : SubmissionReturns(t, result)
  \/ \E m \in 1..MaxMessages, file \in Files :
       \/ FileRejected(m, file)
       \/ FileSelected(m, file)
  \/ \E t \in 1..MaxTasks, result \in UploadOutcomes :
       \/ UploadFails(t, result)
       \/ UploadCompleteWithDetails(t, result)
       \/ UploadCompleteNoDetails(t, result)

RestoreSpec == Init /\ [][RestoreNext]_vars

\* the handler of a turn (intent extraction, NFT details, confirmation) waiting
\* at position t goes on: the external call it waits for returns or throws
TurnContinues(t) ==
  \/ \E outcome \in AllOutcomes :
       \/ OracleReturnsUpload(t, outcome)
       \/ OracleReturnsReply(t, outcome)
       \/ OracleReturnsAction(t, outcome)
  \/ \E fees \in FeeOutcomes(TRUE) :
       \/ IntentComposed(t, fees)
       \/ IntentComposeFails(t, fees)
       \/ DetailsComposed(t, fees)
       \/ DetailsComposeFails(t, fees)
  \/ ConfirmImportFails(t)
  \/ \E wallet \in Wallets : confirmAction(t, wallet)
  \/ \E result \in SubmissionOutcomes : SubmissionReturns(t, result)

\* the sessions in which every external call of a turn returns or throws
FairSpec ==
  /\ Init
  /\ [][OracleNext]_vars
  /\ \A t \in 1..MaxTasks : WF_vars(TurnContinues(t))

\* ------------------------------------------------------------------ the claims

\* C1: for every PendingAction the submission collaborator is invoked at most
\* once, under every interleaving of user replies: no two logged submission
\* calls are made for the same PendingAction.
C1_AtMostOnceSubmission ==
  \A i, j \in DOMAIN submissions :
    submissions[i].id = submissions[j].id => i = j

\* C2: setPendingAction with a non-null action is performed only when
\* pendingAction is none: no step creates or replaces a PendingAction while
\* another one is still set.
C2_SetOnlyWhenNone ==
  [][(pendingAction' # NULL /\ pendingAction' # pendingAction)
       => pendingAction = NULL]_vars

\* C3: a reply that, trimmed and lower-cased, is one of yes, y, confirm,
\* proceed, ok, sure, sent while a PendingAction awaits confirmation, invokes
\* confirmAction exactly once, for that PendingAction; and every end of a
\* confirmAction, successful or failed, leaves pendingAction none.
C3_AffirmativeExecutesOnce ==
  [][/\ \A text \in Inputs :
          (/\ handleSendMessage(text)
           /\ pendingAction # NULL /\ pendingAction.isWaitingForConfirmation
           /\ Typed[text].normalizedInput \in
                {S_yes, S_y, S_confirm, S_proceed, S_ok, S_sure})
          => /\ Len(tasks') = Len(tasks) + 1
             /\ SubSeq(tasks', 1, Len(tasks)) = tasks
             /\ tasks'[Len(tasks')].kind = "confirm"
             /\ tasks'[Len(tasks')].state = pendingAction
             /\ submissions' = submissions
      /\ \A t \in DOMAIN tasks :
          (tasks[t].kind = "confirm" /\ tasks' = Finished(t))
          => pendingAction' = NULL]_vars

\* C3 happens: the executor has returned after an affirmative reply, the
\* collaborator having reported success.
C3_Witness ==
  /\ pendingAction = NULL
  /\ Len(messages) >= 2
  /\ messages[Len(messages)].content = "Transaction Successful"
  /\ messages[Len(messages) - 1].type = "user"

\* C4: a reply that, trimmed and lower-cased, is one of no, n, cancel, abort,
\* stop, sent while a PendingAction awaits confirmation, discards the
\* PendingAction, appends the user message and exactly one cancellation
\* message, and invokes neither the executor nor a submission collaborator.
C4_NegativeDiscards ==
  [][\A text \in Inputs :
       (/\ handleSendMessage(text)
        /\ pendingAction # NULL /\ pendingAction.isWaitingForConfirmation
        /\ Typed[text].normalizedInput \in
             {S_no, S_n, S_cancel, S_abort, S_stop})
       => /\ pendingAction' = NULL
          /\ Len(messages') = Len(messages) + 2
          /\ SubSeq(messages', 1, Len(messages)) = messages
          /\ messages'[Len(messages) + 1].type = "user"
          /\ messages'[Len(messages) + 2].type = "ai"
          /\ messages'[Len(messages) + 2].content = "Action Cancelled"
          /\ tasks' = tasks
          /\ submissions' = submissions]_vars

\* C4 happens: a PendingAction has been cancelled by a negative reply.
C4_Witness ==
  /\ pendingAction = NULL
  /\ nextId > 1
  /\ messages[Len(messages)].content = "Action Cancelled"
  /\ submissions = <<>>

\* C5: a reply in neither set, sent while a PendingAction awaits confirmation,
\* leaves the PendingAction as it is (same action, same messageId, still
\* awaiting), calls no executor, and appends the user message and one message
\* asking for Yes or No; so does every further such reply.
C5_UnclearKeepsPending ==
  [][\A text \in Inputs :
       (/\ handleSendMessage(text)
        /\ pendingAction # NULL /\ pendingAction.isWaitingForConfirmation
        /\ Typed[text].normalizedInput \notin
             {S_yes, S_y, S_confirm, S_proceed, S_ok, S_sure,
              S_no, S_n, S_cancel, S_abort, S_stop})
       => /\ pendingAction' = pendingAction
          /\ Len(messages') = Len(messages) + 2
          /\ SubSeq(messages', 1, Len(messages)) = messages
          /\ messages'[Len(messages) + 1].type = "user"
          /\ messages'[Len(messages) + 2].type = "ai"
          /\ messages'[Len(messages) + 2].content = "Please reply Yes or No"
          /\ tasks' = tasks
          /\ submissions' = submissions]_vars

\* C5 happens: two unrecognised replies in a row, and the PendingAction still
\* awaits confirmation.
C5_Witness ==
  /\ pendingAction # NULL /\ pendingAction.isWaitingForConfirmation
  /\ Len(messages) >= 4
  /\ messages[Len(messages)].content = "Please reply Yes or No"
  /\ messages[Len(messages) - 2].content = "Please reply Yes or No"

\* C6: while a PendingAction awaits confirmation no user message reaches
\* processUserInput: a message sent then starts no handler but confirmAction.
C6_NoIntentWhileAwaiting ==
  [][\A text \in Inputs :
       (/\ handleSendMessage(text)
        /\ pendingAction # NULL /\ pendingAction.isWaitingForConfirmation)
       => \/ tasks' = tasks
          \/ /\ Len(tasks') = Len(tasks) + 1
             /\ SubSeq(tasks', 1, Len(tasks)) = tasks
             /\ tasks'[Len(tasks')].kind = "confirm"]_vars

\* C6 happens: a message was sent while a PendingAction awaited confirmation,
\* and no call of the oracle is in flight.
C6_Witness ==
  /\ pendingAction # NULL /\ pendingAction.isWaitingForConfirmation
  /\ messages[Len(messages)].type = "user"
  /\ \A t \in DOMAIN tasks : tasks[t].kind = "confirm"
  /\ tasks # <<>>

\* C7, as the specification states it: whenever no PendingAction awaits
\* confirmation, an accepted user message is routed to processUserInput.
C7_AlwaysToIntent ==
  [][\A text \in Inputs :
       (/\ handleSendMessage(text)
        /\ ~(pendingAction # NULL /\ pendingAction.isWaitingForConfirmation))
       => /\ Len(tasks') = Len(tasks) + 1
          /\ SubSeq(tasks', 1, Len(tasks)) = tasks
          /\ tasks'[Len(tasks')] = [kind |-> "intent", pc |-> "oracle"]]_vars

\* C7, amended: whenever no PendingAction awaits confirmation and the session
\* is not waiting for NFT details, an accepted user message is routed to
\* processUserInput; while the session waits for NFT details it never is.
C7_ToIntentOutsideDetails ==
  [][\A text \in Inputs :
       (/\ handleSendMessage(text)
        /\ ~(pendingAction # NULL /\ pendingAction.isWaitingForConfirmation))
       => IF isWaitingForNFTDetails
          THEN \A t \in DOMAIN tasks' :
                 tasks'[t].kind = "intent" => t \in DOMAIN tasks
          ELSE /\ Len(tasks') = Len(tasks) + 1
               /\ SubSeq(tasks', 1, Len(tasks)) = tasks
               /\ tasks'[Len(tasks')] = [kind |-> "intent", pc |-> "oracle"]
               /\ isProcessing']_vars

\* C7 happens: an image is kept from an upload, the session is not waiting
\* for NFT details, and the message just sent has gone to the oracle.
C7_Witness ==
  /\ uploadedImage # NULL
  /\ ~isWaitingForNFTDetails
  /\ pendingAction = NULL
  /\ messages[Len(messages)].type = "user"
  /\ \E t \in DOMAIN tasks : tasks[t] = [kind |-> "intent", pc |-> "oracle"]

\* C8: every execution attempt ends with the PendingAction cleared and the
\* processing flag false: after the collaborator returns success or failure,
\* after an exception, without a signing key, for a non-executable kind.
C8_ExecutionAlwaysClears ==
  [][\A t \in DOMAIN tasks :
       (tasks[t].kind = "confirm" /\ tasks' = Finished(t))
       => /\ pendingAction' = NULL
          /\ ~isProcessing'
          /\ Len(messages') = Len(messages) + 1
          /\ messages'[Len(messages')].content \in
               {"Transaction Successful", "Transaction Failed"}]_vars

\* C8 happens: an execution attempt for a non-executable kind has ended.
C8_Witness ==
  /\ pendingAction = NULL
  /\ ~isProcessing
  /\ messages[Len(messages)] = FailedMessage(UnsupportedAction("check_balance"))

\* C9, its last part: once the collaborator has reported failure for a
\* PendingAction, no further submission call is made for that PendingAction.
C9_NoSubmissionAfterFailure ==
  [][\A i \in DOMAIN submissions :
       (submissions[i].result # NULL /\ ~submissions[i].result.success)
       => ~(/\ Len(submissions') > Len(submissions)
            /\ submissions'[Len(submissions')].id = submissions[i].id)]_vars

C12_DispatchMatchesPresented ==
  /\ [][\A text \in Inputs :
          (/\ handleSendMessage(text)
           /\ AwaitingConfirmation
           /\ Typed[text].normalizedInput \in Affirmative)
          => LET shown == {i \in 1..Len(messages) : "shows" \in DOMAIN messages[i]}
                 last == CHOOSE i \in shown : \A j \in shown : j <= i
             IN  /\ shown # {}
                 /\ Len(tasks') = Len(tasks) + 1
                 /\ tasks'[Len(tasks')].kind = "confirm"
                 /\ tasks'[Len(tasks')].state.action = pendingAction.action
                 /\ tasks'[Len(tasks')].state.action.details = messages[last].shows
                 /\ generateConfirmationMessage(pendingAction.action)
                      \in {messages[last].content, messages[last].arg}]_vars
  /\ [](\A t \in DOMAIN tasks :
          ConfirmAt(t, "submit")
          => LET call == submissions[tasks[t].call]
                 kind == tasks[t].state.action.action
             IN  /\ kind \in {"create_token", "mint_nft", "send_transaction"}
                 /\ kind = "create_token" => call.operation = "createToken"
                 /\ kind = "mint_nft" => call.operation = "mintNFT"
                 /\ kind = "send_transaction" => call.operation = "sendTransaction"
                 /\ call.details = tasks[t].state.action.details
                 /\ call.id = tasks[t].state.messageId)

\* sendTransaction is in flight with the details the confirmation message
\* showed, the recipient and the amount of the oracle's answer among them
C12_Witness ==
  \E t \in DOMAIN tasks :
    /\ ConfirmAt(t, "submit")
    /\ submissions[tasks[t].call].operation = "sendTransaction"
    /\ submissions[tasks[t].call].details.recipient = S_address
    /\ \E i \in 1..Len(messages) :
         /\ "shows" \in DOMAIN messages[i]
         /\ messages[i].shows = submissions[tasks[t].call].details

\* C13: at most one core operation is in flight: a handleSendMessage at the
\* oracle or at the composition of its confirmation, a detail handling at its
\* composition, an upload-completion handling at its composition, or a
\* confirmAction; no second one is started while one is suspended.
C13_OneCoreOperation ==
  Cardinality({t \in DOMAIN tasks :
                 \/ tasks[t].kind \in {"intent", "details", "confirm"}
                 \/ UploadAt(t, "compose")}) <= 1

\* C14: for every action processUserInput returns to handleSendMessage and for
\* the action of every PendingAction, isComplete is true if and only if
\* missingFields is empty and the fields its kind requires are present and
\* valid: name, symbol and totalSupply for create_token; a recipient that is an
\* address and an amount above zero for send_transaction; name and imageUrl for
\* mint_nft.
C14_CompleteIffValid ==
  [][LET Valid(a) ==
           LET d == IF "details" \in DOMAIN a THEN a.details ELSE <<>>
           IN  CASE a.action = "create_token" ->
                      Truthy(d, "name") /\ Truthy(d, "symbol") /\ Truthy(d, "totalSupply")
                 [] a.action = "send_transaction" ->
                      /\ Truthy(d, "recipient") /\ isAddress(d.recipient)
                      /\ Truthy(d, "amount") /\ amountIsPositive(d.amount)
                 [] a.action = "mint_nft" ->
                      Truthy(d, "name") /\ "imageUrl" \in DOMAIN d
                 [] OTHER -> TRUE
         Holds(a) == a.isComplete <=> (a.missingFields = <<>> /\ Valid(a))
     IN  /\ \A t \in 1..MaxTasks, outcome \in AllOutcomes :
              (/\ \/ OracleReturnsUpload(t, outcome)
                  \/ OracleReturnsReply(t, outcome)
                  \/ OracleReturnsAction(t, outcome)
               /\ Results[outcome].action # NULL)
              => Holds(Results[outcome].action)
         /\ pendingAction' # NULL => Holds(pendingAction'.action)]_vars

\* C15: for every answer of the oracle with no fenced block, or with a block
\* JSON.parse rejects, processUserInput returns the raw text as the reply with
\* no action and requiresConfirmation false, and the turn ends there: the text
\* is appended as one assistant message with no upload control, the handler
\* returns with the processing flag reset, and no PendingAction is set.
C15_PlainReplyFallback ==
  [][\A t \in 1..MaxTasks, outcome \in AllOutcomes :
       (/\ ~outcome.throws
        /\ ~outcome.aiResponse.fenced \/ outcome.aiResponse.json = NULL
        /\ \/ OracleReturnsUpload(t, outcome)
           \/ OracleReturnsReply(t, outcome)
           \/ OracleReturnsAction(t, outcome))
       => /\ Results[outcome] = [response |-> outcome.aiResponse.text,
                                 action |-> NULL,
                                 requiresConfirmation |-> FALSE]
          /\ messages' = Append(messages, AiMessage("reply", outcome.aiResponse.text))
          /\ tasks' = Finished(t)
          /\ isProcessing' = FALSE
          /\ pendingAction' = pendingAction
          /\ nextId' = nextId
          /\ pendingNFTDetails' = pendingNFTDetails
          /\ submissions' = submissions]_vars

\* the oracle answered with a block that is no JSON: its text is the last
\* message, no handler is in flight and nothing is pending
C15_Witness ==
  /\ Len(messages) >= 3
  /\ messages[Len(messages)] = AiMessage("reply", R_broken.text)
  /\ tasks = <<>>
  /\ ~isProcessing
  /\ pendingAction = NULL

\* C16: when the oracle call throws, processUserInput returns the fixed
\* apology with no action and requiresConfirmation false; the turn appends it,
\* sets no PendingAction, resets the processing flag, and leaves the gate Idle
\* (no PendingAction, no handler of the turn in flight), open to the next
\* message.
C16_ThrowEndsIdle ==
  [][\A t \in 1..MaxTasks :
       (\/ OracleReturnsUpload(t, [throws |-> TRUE])
        \/ OracleReturnsReply(t, [throws |-> TRUE])
        \/ OracleReturnsAction(t, [throws |-> TRUE]))
       => /\ Results[[throws |-> TRUE]] =
               [response |-> "I apologize, but I encountered an error processing your request. Please try again.",
                action |-> NULL, requiresConfirmation |-> FALSE]
          /\ messages' = Append(messages,
               AiMessage("reply", Results[[throws |-> TRUE]].response))
          /\ tasks' = Finished(t)
          /\ nextId' = nextId
          /\ isProcessing' = FALSE
          /\ pendingAction' = NULL]_vars

\* C17: for every answer of the oracle whose action is upload_nft, whatever
\* isComplete and requiresConfirmation it carries, the turn ends with one
\* assistant message that shows the upload control: the handler returns, no
\* confirmation is composed, the waiting-for-details sub-state is not entered
\* and no PendingAction is set; and no PendingAction is ever of kind upload_nft.
C17_UploadRequestShowsControl ==
  [][/\ \A t \in 1..MaxTasks, outcome \in AllOutcomes :
          (/\ ~outcome.throws
           /\ outcome.aiResponse.fenced
           /\ outcome.aiResponse.json # NULL
           /\ outcome.aiResponse.json.action # NULL
           /\ outcome.aiResponse.json.action.action = "upload_nft"
           /\ \/ OracleReturnsUpload(t, outcome)
              \/ OracleReturnsReply(t, outcome)
              \/ OracleReturnsAction(t, outcome))
          => /\ messages' = Append(messages,
                  Message("ai", "reply", outcome.aiResponse.json.response, TRUE))
             /\ tasks' = Finished(t)
             /\ isProcessing' = FALSE
             /\ pendingAction' = pendingAction
             /\ nextId' = nextId
             /\ isWaitingForNFTDetails' = isWaitingForNFTDetails
             /\ submissions' = submissions
     /\ pendingAction' # NULL => pendingAction'.action.action # "upload_nft"]_vars

\* the oracle answered upload_nft with isComplete false and a description: the
\* upload control is on the last message, the description is kept, and nothing
\* is pending or in flight
C17_Witness ==
  /\ Len(messages) >= 3
  /\ messages[Len(messages)].showUpload
  /\ pendingNFTDetails = [description |-> S_morning]
  /\ pendingAction = NULL
  /\ tasks = <<>>
  /\ ~isWaitingForNFTDetails

\* C18: when an upload completes while pendingNFTDetails holds a name or a
\* description, the handling synthesizes the complete mint_nft action of those
\* details and the new image URL and ends with a PendingAction awaiting
\* confirmation for it; and when an upload-completion handling ends, in either
\* branch, pendingNFTDetails holds no name and no description.
C18_UploadConsumesDetails ==
  [][\A t \in 1..MaxTasks :
       /\ \A result \in UploadOutcomes :
            (/\ UploadCompleteWithDetails(t, result) \/ UploadCompleteNoDetails(t, result)
             /\ hasNFTDetails(pendingNFTDetails))
            => /\ Len(tasks') = Len(tasks)
               /\ UploadAt(t, "compose")'
               /\ tasks'[t].action = nftActionFromPending(pendingNFTDetails, result.url)
               /\ tasks'[t].action.action = "mint_nft"
               /\ tasks'[t].action.isComplete
               /\ tasks'[t].action.details.imageUrl = result.url
       /\ \A result \in UploadOutcomes :
            UploadCompleteNoDetails(t, result) => ~hasNFTDetails(pendingNFTDetails')
       /\ (\E fees \in FeeOutcomes(TRUE) :
             UploadComposed(t, fees) \/ UploadComposeFails(t, fees))
            => /\ pendingAction' = NewPendingAction(tasks[t].action, nextId)
               /\ pendingAction'.isWaitingForConfirmation
               /\ ~hasNFTDetails(pendingNFTDetails')]_vars

\* C19: every mint_nft action the upload flow has synthesized (being composed
\* by an upload-completion or a detail handling, or set as the PendingAction)
\* carries a name the user supplied, in the earlier request (the name of an
\* upload_nft answer) or in the detail reply; "Untitled NFT" and an empty name
\* are never put in its place.
C19_NameFromUser ==
  LET requested == {r.json.action.details.name :
                      r \in {a \in AllResponses :
                               /\ a.fenced /\ a.json # NULL /\ a.json.action # NULL
                               /\ a.json.action.action = "upload_nft"
                               /\ "details" \in DOMAIN a.json.action
                               /\ Truthy(a.json.action.details, "name")}}
      replied == {Typed[text].parsed.name : text \in Inputs} \ {<<>>}
      Named(a) == /\ a.details.name \in requested \cup replied
                  /\ a.details.name # S_untitled
  IN  /\ \A t \in DOMAIN tasks :
           (tasks[t].kind \in {"upload", "details"} /\ tasks[t].pc = "compose")
           => Named(tasks[t].action)
      /\ (pendingAction # NULL /\ pendingAction.action.action = "mint_nft")
           => Named(pendingAction.action)

\* C20: in the waiting-for-NFT-details sub-state, an accepted reply of the form
\* "Call it X" starts the composition of a mint_nft action whose name is X,
\* whose description is the placeholder and whose image URL is the uploaded
\* one, and the composition ends with that action as the PendingAction
\* awaiting confirmation.
C20_CallItNamesTheNFT ==
  [][/\ \A text \in Inputs :
          LET userInput == Typed[text].userInput
          IN  (/\ handleSendMessage(text)
               /\ ~AwaitingConfirmation
               /\ isWaitingForNFTDetails
               /\ uploadedImage # NULL
               /\ Len(userInput) > 8
               /\ SubSeq(userInput, 1, 8) = <<"C","a","l","l"," ","i","t"," ">>)
              => /\ Len(tasks') = Len(tasks) + 1
                 /\ tasks'[Len(tasks')].kind = "details"
                 /\ tasks'[Len(tasks')].action.action = "mint_nft"
                 /\ tasks'[Len(tasks')].action.details.name =
                      trim(SubSeq(userInput, 9, Len(userInput)))
                 /\ tasks'[Len(tasks')].action.details.description = S_placeholder
                 /\ tasks'[Len(tasks')].action.details.imageUrl = uploadedImage.url
     /\ \A t \in 1..MaxTasks :
          (\E fees \in FeeOutcomes(TRUE) : DetailsComposed(t, fees))
          => /\ pendingAction' # NULL
             /\ pendingAction'.action = tasks[t].action
             /\ pendingAction'.isWaitingForConfirmation]_vars

\* C21: when validateImageFile rejects the chosen file, or uploadImage reports
\* failure, one assistant message with the reported error text is appended and
\* nothing else changes: the PendingAction, the processing flag, the
\* waiting-for-NFT-details flag, the stored uploaded image, pendingNFTDetails
\* and the submissions are as before, and no handler is started.
C21_UploadFailureOnlyReports ==
  [][/\ \A m \in 1..MaxMessages, file \in Files :
          FileRejected(m, file)
          => /\ ~validateImageFile(file).valid
             /\ messages' = Append(messages,
                  AiMessage("Upload Failed", validateImageFile(file).error))
             /\ tasks' = tasks
             /\ UNCHANGED <<pendingAction, isProcessing, isWaitingForNFTDetails,
                            uploadedImage, pendingNFTDetails, nextId, submissions>>
     /\ \A t \in 1..MaxTasks, result \in UploadOutcomes :
          UploadFails(t, result)
          => /\ ~result.success
             /\ messages' = Append(messages,
                  AiMessage("Upload Failed", result.error))
             /\ tasks' = Finished(t)
             /\ UNCHANGED <<pendingAction, isProcessing, isWaitingForNFTDetails,
                            uploadedImage, pendingNFTDetails, nextId, submissions>>]_vars

\* the upload of an image failed while a name kept from the request and a
\* PendingAction were there: the error is the last message and both are kept
C21_Witness ==
  /\ messages[Len(messages)] = AiMessage("Upload Failed", "Failed to initialize bucket")
  /\ pendingNFTDetails = [name |-> S_Sunrise]
  /\ pendingAction # NULL
  /\ uploadedImage = NULL

\* C22: every create_token action that the oracle gave a name and neither a
\* symbol nor a supply leaves parseAIResponse with decimals 18 and a symbol of
\* at least 3 characters, the same symbol wherever the same name occurs.
C22_DefaultSymbolAtLeast3 ==
  LET held == {tasks[t].action : t \in {u \in DOMAIN tasks :
                                          IntentAt(u, "compose")}}
              \cup {tasks[t].state.action : t \in {u \in DOMAIN tasks :
                                                     tasks[u].kind = "confirm"}}
              \cup (IF pendingAction = NULL THEN {} ELSE {pendingAction.action})
      tokens == {a \in held : a.action = "create_token"}
  IN  /\ \A a \in tokens :
           /\ a.details.decimals = <<"1","8">>
           /\ Len(a.details.symbol) >= 3
      /\ \A a, b \in tokens :
           a.details.name = b.details.name => a.details.symbol = b.details.symbol

\* C23: the symbol of every defaulted create_token action is derived from the
\* words left of its name once the generic words are removed: no word gives
\* "TKN"; one word gives its first 3 or 4 letters in upper case; two words give
\* the first two letters of each, 4 characters at most; three or more words
\* give their initials, 4 at most, with "N" added when fewer than 3 result.
C23_SymbolDerivation ==
  LET held == {tasks[t].action : t \in {u \in DOMAIN tasks :
                                          IntentAt(u, "compose")}}
              \cup {tasks[t].state.action : t \in {u \in DOMAIN tasks :
                                                     tasks[u].kind = "confirm"}}
              \cup (IF pendingAction = NULL THEN {} ELSE {pendingAction.action})
      tokens == {a \in held : a.action = "create_token"}
      first(w, n) == SubSeq(w, 1, IF Len(w) < n THEN Len(w) ELSE n)
  IN  \A a \in tokens :
        LET symbol == a.details.symbol
            words == splitWords(trim(removeGeneric(a.details.name, 1)), 1)
            letters == [i \in 1..Len(words) |-> UpperChar(words[i][1])]
        IN  /\ Len(words) = 0 => symbol = <<"T","K","N">>
            /\ Len(words) = 1 =>
                 /\ Len(symbol) \in {3, 4}
                 /\ symbol = first(toUpperCase(words[1]), Len(symbol))
            /\ Len(words) = 2 =>
                 symbol = first(first(toUpperCase(words[1]), 2)
                                \o first(toUpperCase(words[2]), 2), 4)
            /\ Len(words) >= 3 =>
                 symbol = IF Len(first(letters, 4)) < 3
                          THEN first(letters, 4) \o <<"N">>
                          ELSE first(letters, 4)

\* C24: composing the confirmation never blocks the gate: for every complete
\* create_token, mint_nft or send_transaction action being composed (on the
\* intent, the detail or the upload route) whose import succeeded, whatever
\* the fee-data calls and the price lookup do, the step appends a confirmation
\* message with a gas line (0.0001 BNB when the estimate failed, the cost in
\* dollars from the fallback estimate and the fallback price 600 when those
\* calls failed) and sets the PendingAction to that action, awaiting the
\* confirmation of the user.
C24_ComposeSurvivesFeeFailures ==
  [][\A t \in 1..MaxTasks, fees \in FeeOutcomes(TRUE) :
       (/\ t \in DOMAIN tasks
        /\ tasks[t].pc = "compose"
        /\ fees.imported
        /\ tasks[t].action.action \in {"create_token", "mint_nft", "send_transaction"}
        /\ tasks[t].action.isComplete
        /\ \/ IntentComposed(t, fees) \/ IntentComposeFails(t, fees)
           \/ DetailsComposed(t, fees) \/ DetailsComposeFails(t, fees)
           \/ UploadComposed(t, fees) \/ UploadComposeFails(t, fees))
       => /\ Len(messages') = Len(messages) + 1
          /\ LET shown == messages'[Len(messages')]
             IN  /\ shown.type = "ai"
                 /\ generateConfirmationMessage(tasks[t].action) \in {shown.content, shown.arg}
                 /\ shown.shows = tasks[t].action.details
                 /\ ~shown.quote.throws
                 /\ fees.estimate.throws => shown.quote.gas = 100000
                 /\ (fees.costUSD.throws /\ fees.lookup.throws) => shown.quote.usd = 600
                 /\ (fees.costUSD.throws /\ ~fees.lookup.throws) => shown.quote.usd = 900
          /\ pendingAction' # NULL
          /\ pendingAction'.action = tasks[t].action
          /\ pendingAction'.isWaitingForConfirmation]_vars

\* a transfer awaits its confirmation under a message whose gas line was
\* written from the fallback estimate and the fallback price
C24_Witness ==
  /\ pendingAction # NULL
  /\ pendingAction.isWaitingForConfirmation
  /\ pendingAction.action.action = "send_transaction"
  /\ Len(messages) > 1
  /\ LET shown == messages[Len(messages)]
     IN  /\ shown.content = "Transaction Confirmation"
         /\ shown.quote = [throws |-> FALSE, gas |-> 100000, usd |-> 600]

\* C25: the persistence round trip: loading the page again restores the most
\* recent min(n, 50) messages of the conversation of n messages, in the same
\* order, each with the same id, author, content and timestamp; a conversation
\* of at most 50 messages is restored as it was.
C25_RoundTrip ==
  [][Rehydrate =>
       LET n == Len(messages)
           kept == IF n < KeptMessages THEN n ELSE KeptMessages
       IN  /\ Len(messages') = kept
           /\ \A i \in 1..kept :
                LET before == messages[n - kept + i]
                    after == messages'[i]
                IN  /\ after.id = before.id
                    /\ after.type = before.type
                    /\ after.content = before.content
                    /\ after.timestamp = before.timestamp
           /\ n <= KeptMessages => messages' = messages]_vars

\* a conversation of 50 messages restored from a longer one: its first message
\* is not the welcome message, and it holds texts with quotes, backslashes and
\* line ends and a time at the end of a February
C25_Witness ==
  /\ Len(messages) = KeptMessages
  /\ messages[1].id # <<"w","e","l","c","o","m","e">>
  /\ \E i \in DOMAIN messages : messages[i].content = <<"\\","\"">>
  /\ \E i \in DOMAIN messages :
       SubSeq(toISOString(messages[i].timestamp), 1, 10)
         = <<"2","0","2","4","-","0","2","-","2","9">>

\* C26: a PendingAction is removed only by the reject reply of the user, by the
\* completion of its own execution (the execution started by the confirm reply
\* to it), or by clearConversation: no step of the execution of another action
\* sets pendingAction to none while a PendingAction with a different id is set.
C26_RemovedOnlyByItsOwn ==
  [][(pendingAction # NULL /\ pendingAction' = NULL)
       => \/ clears' # clears
          \/ \E text \in Inputs : SendNegative(text)
          \/ \E t \in DOMAIN tasks :
               /\ tasks[t].kind = "confirm"
               /\ tasks[t].state.messageId = pendingAction.messageId
               /\ tasks' = Finished(t)]_vars

\* C27 as written: in the waiting-for-NFT-details sub-state, an accepted reply
\* with no `called <name>` and no `name: <name>` in it that contains "confirm",
\* "mint" or "proceed", or contains "skip" or "no description" or is exactly
\* "no", adds the user message and a re-prompt for a name and nothing else: no
\* handler is started, no PendingAction is created or removed, nothing is
\* submitted, and the sub-state and the stored image are unchanged.
C27_RepromptInSubState ==
  [][\A text \in Inputs :
       LET userInput == Typed[text].userInput
           lower == toLowerCase(userInput)
       IN  (/\ isWaitingForNFTDetails
            /\ handleSendMessage(text)
            /\ calledMatch(userInput) = NULL
            /\ keyMatch(userInput, S_name_colon) = NULL
            /\ \/ includes(lower, S_confirm)
               \/ includes(lower, S_mint)
               \/ includes(lower, S_proceed)
               \/ includes(lower, S_skip)
               \/ includes(lower, S_no_description)
               \/ lower = S_no)
           => /\ Len(messages') = Len(messages) + 2
              /\ messages'[Len(messages) + 1] = UserMessage(text)
              /\ messages'[Len(messages) + 2].type = "ai"
              /\ messages'[Len(messages) + 2].content
                   \in {"I need at least a name", "What would you like to name",
                        "I need a name"}
              /\ tasks' = tasks
              /\ pendingAction' = pendingAction
              /\ submissions' = submissions
              /\ isWaitingForNFTDetails'
              /\ uploadedImage' = uploadedImage]_vars

\* C27, amended: the same, for a reply typed while no PendingAction awaits its
\* confirmation (a reply typed while one does is the answer to it).
C27_RepromptWhenNotAwaiting ==
  [][\A text \in Inputs :
       LET userInput == Typed[text].userInput
           lower == toLowerCase(userInput)
       IN  (/\ isWaitingForNFTDetails
            /\ ~AwaitingConfirmation
            /\ handleSendMessage(text)
            /\ calledMatch(userInput) = NULL
            /\ keyMatch(userInput, S_name_colon) = NULL
            /\ \/ includes(lower, S_confirm)
               \/ includes(lower, S_mint)
               \/ includes(lower, S_proceed)
               \/ includes(lower, S_skip)
               \/ includes(lower, S_no_description)
               \/ lower = S_no)
           => /\ Len(messages') = Len(messages) + 2
              /\ messages'[Len(messages) + 1] = UserMessage(text)
              /\ messages'[Len(messages) + 2].type = "ai"
              /\ messages'[Len(messages) + 2].content
                   \in {"I need at least a name", "What would you like to name",
                        "I need a name"}
              /\ tasks' = tasks
              /\ pendingAction' = pendingAction
              /\ submissions' = submissions
              /\ isWaitingForNFTDetails'
              /\ uploadedImage' = uploadedImage]_vars

\* the assistant has asked for a name after a reply that wanted to go on
\* without one: the image is kept, the sub-state goes on, nothing is pending
C27_Witness ==
  /\ isWaitingForNFTDetails
  /\ uploadedImage # NULL
  /\ pendingAction = NULL
  /\ tasks = <<>>
  /\ Len(messages) > 2
  /\ messages[Len(messages)] = AiMessage("I need at least a name", "")
  /\ messages[Len(messages) - 1].type = "user"

\* C28: Clear Chat pressed while a PendingAction awaits its confirmation
\* discards it without executing it: right after the step the transcript is
\* the single welcome message, pendingAction is none, the processing flag is
\* false and nothing was submitted by the step.  No later affirmative reply
\* brings a submission for it: an affirmative reply starts confirmAction only
\* for the PendingAction that is set and awaiting when it is typed, a step
\* submits only for the PendingAction the confirmAction in flight was started
\* for, and a PendingAction that is set anew carries an id no earlier one had.
C28_ClearDiscardsPending ==
  [][
      /\ (AwaitingConfirmation /\ clears' # clears)
          => /\ messages' = <<WelcomeMessage>>
             /\ pendingAction' = NULL
             /\ isProcessing' = FALSE
             /\ submissions' = submissions
      /\ \A text \in Inputs :
           (Typed[text].normalizedInput \in Affirmative /\ handleSendMessage(text))
             => /\ submissions' = submissions
                /\ IF AwaitingConfirmation
                   THEN /\ Len(tasks') = Len(tasks) + 1
                        /\ tasks'[Len(tasks')].kind = "confirm"
                        /\ tasks'[Len(tasks')].state = pendingAction
                   ELSE \A t \in DOMAIN tasks' :
                          tasks'[t].kind = "confirm"
                            => (t \in DOMAIN tasks /\ tasks'[t] = tasks[t])
      /\ (Len(submissions') > Len(submissions))
           => \E t \in DOMAIN tasks :
                /\ ConfirmAt(t, "import")
                /\ submissions'[Len(submissions')].id = tasks[t].state.messageId
      /\ (pendingAction' # NULL /\ pendingAction' # pendingAction)
           => /\ pendingAction'.messageId = nextId
              /\ nextId' = nextId + 1
              /\ \A t \in DOMAIN tasks :
                   tasks[t].kind = "confirm" => (tasks[t].state.messageId < nextId)
              /\ (pendingAction # NULL) => (pendingAction.messageId < nextId)]_vars

\* after Clear Chat on an awaited PendingAction the user has typed an
\* affirmative reply: it went to the intent extraction and nothing was
\* submitted
C28_Witness ==
  /\ clears = 1
  /\ nextId = 2
  /\ pendingAction = NULL
  /\ submissions = <<>>
  /\ messages = <<WelcomeMessage, UserMessage(S_yes)>>
  /\ tasks = <<[kind |-> "intent", pc |-> "oracle"]>>
  /\ isProcessing

\* C29: the PendingAction and the processing flag are not persisted: when the
\* page is loaded again, in whatever state (a PendingAction awaiting, an
\* execution in flight), the restored session has pendingAction none, the
\* processing flag false and no handler in flight; and an affirmative reply
\* typed while no PendingAction is set starts no confirmAction and submits
\* nothing, a submission being made only by a confirmAction in flight.
C29_NotPersisted ==
  [][
      /\ Rehydrate
           => /\ pendingAction' = NULL
              /\ isProcessing' = FALSE
              /\ tasks' = <<>>
              /\ submissions' = submissions
              /\ messages' = messages
      /\ \A text \in Inputs :
           (/\ pendingAction = NULL
            /\ Typed[text].normalizedInput \in Affirmative
            /\ handleSendMessage(text))
             => /\ submissions' = submissions
                /\ \A t \in DOMAIN tasks' :
                     tasks'[t].kind = "confirm"
                       => (t \in DOMAIN tasks /\ tasks'[t] = tasks[t])
      /\ (Len(submissions') > Len(submissions))
           => \E t \in DOMAIN tasks : ConfirmAt(t, "import")]_vars

\* the page was loaded again under a confirmation (the transcript still ends
\* with it), and the user has then typed yes: the reply went to the intent
\* extraction and nothing was submitted
C29_Witness ==
  /\ pendingAction = NULL
  /\ submissions = <<>>
  /\ nextId = 2
  /\ Len(messages) = 5
  /\ "shows" \in DOMAIN messages[4]
  /\ messages[5] = UserMessage(S_yes)
  /\ tasks = <<[kind |-> "intent", pc |-> "oracle"]>>

\* C30: an accepted user message is appended to the transcript before any
\* assistant message of its turn (the step that accepts it appends it first,
\* and at most one assistant message after it), and it is eventually followed
\* by an assistant message: whenever the transcript ends with a user message,
\* it later ends with an assistant message, on the three routes, when every
\* external call of a turn returns or throws.
C30_UserMessageAnswered ==
  /\ [][\A text \in Inputs :
          handleSendMessage(text)
            => /\ Len(messages') \in {Len(messages) + 1, Len(messages) + 2}
               /\ SubSeq(messages', 1, Len(messages)) = messages
               /\ messages'[Len(messages) + 1] = UserMessage(text)
               /\ (Len(messages') = Len(messages) + 2)
                    => (messages'[Len(messages) + 2].type = "ai")]_vars
  /\ (messages[Len(messages)].type = "user")
       ~> (messages[Len(messages)].type = "ai")

\* two user messages have been answered: the request by the reply of the
\* oracle and the confirmation, the yes by the result of the execution
C30_Witness ==
  /\ tasks = <<>>
  /\ Len(messages) = 6
  /\ messages[2].type = "user"
  /\ messages[3].content = "reply"
  /\ messages[5] = UserMessage(S_yes)
  /\ messages[6].content = "Transaction Successful"

====
